---- MODULE Spec2Model ----
(***************************************************************************)
(* Model of react-mapdraw-navigator: the useMapNavigation hook (graph      *)
(* store, navigation engine, document normalizer, view-transform cache)    *)
(* and the drawing geometry of MapImageViewer.                             *)
(*                                                                         *)
(* JavaScript values are modelled as follows.  A JS object is a function   *)
(* from the property names it holds to their values; reading a property    *)
(* that is absent gives Undefined, as in JS.  Strings, ids and URLs are    *)
(* TLA+ strings; hotspot coordinates inside the graph store are opaque     *)
(* pass-through values and are written as strings too.  A parsed JSON      *)
(* value is a record tagged by t: "null", "num", "str", "arr", "obj".      *)
(* React state updates followed by the effects they trigger are one        *)
(* atomic action: React flushes effects before the next discrete event.    *)
(***************************************************************************)
EXTENDS Integers, Sequences, FiniteSets, TLC

\* ------------------------------------------------------------------ bounds
MaxHotspots == 2      \* hotspots in the graph beyond which no further add is offered
MaxHistory == 2       \* history length beyond which no further forward step is offered

\* ------------------------------------------------------------ JS primitives
Undefined == "undefined"
Null == "null"

Get(o, k) == IF k \in DOMAIN o THEN o[k] ELSE Undefined
Truthy(v) == v # Undefined /\ v # Null /\ v # ""

\* An object literal with the listed properties, keeping undefined ones as keys.
HotspotFields ==
    {"id", "x", "y", "width", "height", "title", "linkType",
     "link_to_map_id", "linkedUrl", "urlTarget"}

\* JSON.stringify of a flat object drops the properties whose value is undefined.
StringifyObject(o) == [k \in {j \in DOMAIN o : o[j] # Undefined} |-> o[k]]

\* Parsed JSON values.
JNull == [t |-> "null"]
JNum == [t |-> "num"]
JStr(n) == [t |-> "str", len |-> n]
JArr(items) == [t |-> "arr", items |-> items]
JObj(o) == [t |-> "obj", o |-> o]
JAbsent == [t |-> "absent"]

\* Property read on a parsed JSON value: throws on null, undefined on primitives.
PropThrows(v) == v.t = "null"
Prop(v, k) == IF v.t = "obj" THEN Get(v.o, k) ELSE Undefined

IndexKey(i) == CASE i = 1 -> "0" [] i = 2 -> "1" [] i = 3 -> "2" [] OTHER -> "3"

RECURSIVE SeqToSet(_)
SeqToSet(s) == IF s = <<>> THEN {} ELSE {Head(s)} \cup SeqToSet(Tail(s))

RECURSIVE SetToSeq(_)
SetToSeq(S) == IF S = {} THEN <<>>
               ELSE LET e == CHOOSE x \in S : TRUE IN <<e>> \o SetToSeq(S \ {e})

\* ------------------------------------------------- document normalizer
\* A top-level JSON object keeps its entries in key order: <<[key, val], ...>>.
JMap(entries) == [t |-> "map", entries |-> entries]
BadText == [t |-> "badtext"]

\* The value of mapDef.hotspots as a tagged JSON value.
RawHotspots(mapDef) ==
    IF mapDef.t = "obj" /\ "hotspots" \in DOMAIN mapDef.o THEN mapDef.o.hotspots
    ELSE JAbsent

\* A normalizer that carries the URL of a map link along.
NormalizeHotspot_KeepsBothPayloads(hs) ==
    LET declared == Prop(hs, "linkType")
        determinedLinkType ==
            IF Truthy(declared) THEN declared
            ELSE IF Truthy(Prop(hs, "link_to_map_id")) THEN "map"
            ELSE IF Truthy(Prop(hs, "linkedUrl")) THEN "url"
            ELSE declared
        normalizedHotspot ==
            [id |-> Prop(hs, "id"), x |-> Prop(hs, "x"), y |-> Prop(hs, "y"),
             width |-> Prop(hs, "width"), height |-> Prop(hs, "height"),
             title |-> Prop(hs, "title"), linkType |-> determinedLinkType]
    IN  IF determinedLinkType = "map"
        THEN normalizedHotspot @@ [link_to_map_id |-> Prop(hs, "link_to_map_id"),
                                   linkedUrl |-> Prop(hs, "linkedUrl")]
        ELSE IF determinedLinkType = "url"
        THEN normalizedHotspot @@
             [linkedUrl |-> Prop(hs, "linkedUrl"),
              urlTarget |-> IF Truthy(Prop(hs, "urlTarget"))
                            THEN Prop(hs, "urlTarget") ELSE "_blank"]
        ELSE normalizedHotspot

\* One hotspot of the input, as the .map callback builds it.
NormalizeHotspot(hs) ==
    LET declared == Prop(hs, "linkType")
        determinedLinkType ==
            IF Truthy(declared) THEN declared
            ELSE IF Truthy(Prop(hs, "link_to_map_id")) THEN "map"
            ELSE IF Truthy(Prop(hs, "linkedUrl")) THEN "url"
            ELSE declared
        normalizedHotspot ==
            [id |-> Prop(hs, "id"), x |-> Prop(hs, "x"), y |-> Prop(hs, "y"),
             width |-> Prop(hs, "width"), height |-> Prop(hs, "height"),
             title |-> Prop(hs, "title"), linkType |-> determinedLinkType]
    IN  IF determinedLinkType = "map"
        THEN normalizedHotspot @@ [link_to_map_id |-> Prop(hs, "link_to_map_id")]
        ELSE IF determinedLinkType = "url"
        THEN normalizedHotspot @@
             [linkedUrl |-> Prop(hs, "linkedUrl"),
              urlTarget |-> IF Truthy(Prop(hs, "urlTarget"))
                            THEN Prop(hs, "urlTarget") ELSE "_blank"]
        ELSE normalizedHotspot

KeepHotspot(hs) == Truthy(Get(hs, "linkType"))

\* (mapDef.hotspots || []).map(...).filter(...)
NormalizeHotspots(v) ==
    IF v.t = "arr"
    THEN SelectSeq([i \in 1..Len(v.items) |-> NormalizeHotspot(v.items[i])], KeepHotspot)
    ELSE <<>>

\* TypeError inside the loop body: a null map definition, a null hotspot,
\* or a truthy hotspots value that has no .map.
MapDefThrows(mapDef) ==
    \/ PropThrows(mapDef)
    \/ LET v == RawHotspots(mapDef)
       IN  \/ v.t \in {"num", "str", "obj"}
           \/ v.t = "arr" /\ \E i \in 1..Len(v.items) : PropThrows(v.items[i])

NormalizeMapDef(mapDef) ==
    [imageUrl |-> Prop(mapDef, "imageUrl"),
     hotspots |-> NormalizeHotspots(RawHotspots(mapDef))]

\* Own-key order of a JS object: integer-like keys ascending, then the other
\* keys in the order of the text.
IntegerKeys == <<"0", "1", "2", "3">>
OwnKeyOrder(entries) ==
    LET IsInt(e) == \E i \in 1..Len(IntegerKeys) : IntegerKeys[i] = e.key
        IsPresent(k) == \E i \in 1..Len(entries) : entries[i].key = k
        ints == SelectSeq(IntegerKeys, IsPresent)
        NotInt(e) == ~IsInt(e)
    IN  [i \in 1..Len(ints) |->
            entries[CHOOSE j \in 1..Len(entries) : entries[j].key = ints[i]]]
        \o SelectSeq(entries, NotInt)

\* for (const mapId in data): the own enumerable keys of the parsed value.
Entries(data) ==
    CASE data.t = "map" -> OwnKeyOrder(data.entries)
      [] data.t = "arr" -> [i \in 1..Len(data.items) |-> [key |-> IndexKey(i), val |-> data.items[i]]]
      [] data.t = "str" -> [i \in 1..data.len |-> [key |-> IndexKey(i), val |-> JStr(1)]]
      [] OTHER -> <<>>

normalizeMapData(data) ==
    LET es == Entries(data)
        ks == {es[i].key : i \in 1..Len(es)}
        ValOf(k) == es[CHOOSE i \in 1..Len(es) : es[i].key = k].val
    IN  [threw |-> \E i \in 1..Len(es) : MapDefThrows(es[i].val),
         keys |-> [i \in 1..Len(es) |-> es[i].key],
         data |-> [k \in ks |-> NormalizeMapDef(ValOf(k))]]

\* --------------------------------------------- JSON.stringify / JSON.parse
StringifyMapDef(d) ==
    LET hs == JArr([i \in 1..Len(d.hotspots) |-> JObj(StringifyObject(d.hotspots[i]))])
    IN  IF d.imageUrl = Undefined THEN [hotspots |-> hs]
        ELSE [imageUrl |-> d.imageUrl, hotspots |-> hs]

\* JSON.stringify(managedMapData); the model does not track key order.
StringifyGraph(g) ==
    LET ks == SetToSeq(DOMAIN g)
    IN  JMap([i \in 1..Len(ks) |-> [key |-> ks[i], val |-> JObj(StringifyMapDef(g[ks[i]]))]])

ParseMapDef(v) ==
    [imageUrl |-> Prop(v, "imageUrl"),
     hotspots |-> LET h == RawHotspots(v) IN [i \in 1..Len(h.items) |-> h.items[i].o]]

ParseGraph(j) ==
    LET es == j.entries
    IN  [k \in {es[i].key : i \in 1..Len(es)} |->
            ParseMapDef(es[CHOOSE i \in 1..Len(es) : es[i].key = k].val)]

\* JSON.parse(JSON.stringify(x)), the deep copy every mutation starts with.
DeepCopy(g) == ParseGraph(StringifyGraph(g))

\* Two graphs that no property read can tell apart.
SameHotspot(a, b) == \A f \in HotspotFields : Get(a, f) = Get(b, f)
SameGraph(g1, g2) ==
    /\ DOMAIN g1 = DOMAIN g2
    /\ \A k \in DOMAIN g1 :
        /\ g1[k].imageUrl = g2[k].imageUrl
        /\ Len(g1[k].hotspots) = Len(g2[k].hotspots)
        /\ \A i \in 1..Len(g1[k].hotspots) : SameHotspot(g1[k].hotspots[i], g2[k].hotspots[i])

\* ------------------------------------------------------------ hook state
VARIABLES
    managedMapData,           \* MapCollection: map id -> [imageUrl, hotspots]
    currentMapId,             \* a map id or Null
    currentMapDisplayData,    \* <<>> for null, else <<[imageUrl, hotspots]>>
    navigationHistory,        \* sequence of map ids, most recent last
    error,                    \* Null or an error message tag
    editAction,               \* EditAction
    mapViewTransforms,        \* map id -> MapViewTransform
    initialRootMapId,         \* the rootMapId prop
    prevInitialRootMapIdRef,  \* the ref of effect 1
    lastOp,                   \* the handler that ran last and its outcome (observer)
    viewer                    \* MapImageViewer: the drawing gesture and the live transform

hookVars == <<managedMapData, currentMapId, currentMapDisplayData, navigationHistory,
              error, editAction, mapViewTransforms, initialRootMapId,
              prevInitialRootMapIdRef>>
vars == <<hookVars, lastOp, viewer>>

\* The hook's state as one record, so that handlers compose as functions.
St ==
    [data |-> managedMapData, cur |-> currentMapId, disp |-> currentMapDisplayData,
     hist |-> navigationHistory, err |-> error, edit |-> editAction,
     xf |-> mapViewTransforms, root |-> initialRootMapId,
     prevRoot |-> prevInitialRootMapIdRef]

NoTransforms == [k \in {} |-> Null]
NoDisplay == <<>>
DisplayOf(def) == <<[imageUrl |-> def.imageUrl, hotspots |-> def.hotspots]>>

\* A root load that leaves the history as it is when the root is found.
RootLoadEffect_KeepsHistory(s) ==
    LET s0 == [s EXCEPT !.err = Null, !.prevRoot = s.root]
    IN  IF s.cur = Null \/ s.root # s.prevRoot
        THEN IF s.root \in DOMAIN s.data
             THEN [s0 EXCEPT !.cur = s.root, !.disp = DisplayOf(s.data[s.root])]
             ELSE [s0 EXCEPT !.err = "Error loading initial map: Map data not found",
                             !.cur = Null, !.disp = NoDisplay, !.hist = <<>>]
        ELSE s0

\* Effect 1 (initial / new root load), run with the values of render s.
RootLoadEffect(s) ==
    LET s0 == [s EXCEPT !.err = Null, !.prevRoot = s.root]
    IN  IF s.cur = Null \/ s.root # s.prevRoot
        THEN IF s.root \in DOMAIN s.data
             THEN [s0 EXCEPT !.cur = s.root, !.disp = DisplayOf(s.data[s.root]),
                             !.hist = <<>>]
             ELSE [s0 EXCEPT !.err = "Error loading initial map: Map data not found",
                             !.cur = Null, !.disp = NoDisplay, !.hist = <<>>]
        ELSE s0

\* Effect 2 (display data), computed from the values of the render.
DisplayEffect(cur, data) ==
    IF cur # Null /\ cur \in DOMAIN data THEN DisplayOf(data[cur]) ELSE NoDisplay

\* Commit of a render and of the renders its effects schedule, until nothing
\* changes.  ch1, ch2: whether the dependencies of effect 1, effect 2 changed.
RECURSIVE Settle(_, _, _)
Settle(s, ch1, ch2) ==
    LET a == IF ch1 THEN RootLoadEffect(s) ELSE s
        b == IF ch2 THEN [a EXCEPT !.disp = DisplayEffect(s.cur, s.data)] ELSE a
    IN  IF b.cur # s.cur THEN Settle(b, TRUE, TRUE) ELSE b

\* ------------------------------------------------------------ navigation
PathLikeIds == {"maps/x", "http://x"}
HasPathSeparator(id) == id \in PathLikeIds

canGoBack(s) == Len(s.hist) > 0

navigateToChild(s, childMapId) ==
    IF HasPathSeparator(childMapId)
    THEN [s EXCEPT !.err = "Navigation failed: Invalid format for target map ID"]
    ELSE IF s.cur = Null THEN s
    ELSE IF childMapId \in DOMAIN s.data
    THEN Settle([s EXCEPT !.err = Null, !.hist = Append(s.hist, s.cur), !.cur = childMapId],
                childMapId # s.cur, childMapId # s.cur)
    ELSE [s EXCEPT !.err = "Navigation failed: Target map ID not found"]

\* A back step that drops a history entry whose map is gone.
navigateBack_DropsMissingParent(s) ==
    IF Len(s.hist) = 0 THEN s
    ELSE LET parentMapId == s.hist[Len(s.hist)]
         IN  IF parentMapId \in DOMAIN s.data
             THEN Settle([s EXCEPT !.err = Null, !.cur = parentMapId,
                                   !.hist = SubSeq(s.hist, 1, Len(s.hist) - 1)],
                         parentMapId # s.cur, parentMapId # s.cur)
             ELSE [s EXCEPT !.err = "Error navigating back: History might be corrupted",
                            !.hist = SubSeq(s.hist, 1, Len(s.hist) - 1)]

\* A back step that also refuses when the map being left is gone.
navigateBack_RequiresCurrentMap(s) ==
    IF Len(s.hist) = 0 THEN s
    ELSE LET parentMapId == s.hist[Len(s.hist)]
         IN  IF parentMapId \in DOMAIN s.data /\ s.cur \in DOMAIN s.data
             THEN Settle([s EXCEPT !.err = Null, !.cur = parentMapId,
                                   !.hist = SubSeq(s.hist, 1, Len(s.hist) - 1)],
                         parentMapId # s.cur, parentMapId # s.cur)
             ELSE [s EXCEPT !.err = "Error navigating back: History might be corrupted"]

navigateBack(s) ==
    IF Len(s.hist) = 0 THEN s
    ELSE LET parentMapId == s.hist[Len(s.hist)]
         IN  IF parentMapId \in DOMAIN s.data
             THEN Settle([s EXCEPT !.err = Null, !.cur = parentMapId,
                                   !.hist = SubSeq(s.hist, 1, Len(s.hist) - 1)],
                         parentMapId # s.cur, parentMapId # s.cur)
             ELSE [s EXCEPT !.err = "Error navigating back: History might be corrupted"]

\* ------------------------------------------------------------ graph store
\* An updater passed to setManagedMapData gives the new collection, whether
\* it is a new object (changed) and the message it passed to setError (NoErr
\* when it called setError not at all).
NoErr == "no setError call"
Kept(prev, msg) == [data |-> prev, changed |-> FALSE, err |-> msg]
Replaced(new, msg) == [data |-> new, changed |-> TRUE, err |-> msg]

\* A store in which every change of the graph sends the view back to the
\* root map, as before release 0.4.1.
Mutate_JumpsToRoot(s, u) ==
    LET s1 == [s EXCEPT !.err = IF u.err = NoErr THEN Null ELSE u.err, !.data = u.data]
    IN  IF u.changed THEN Settle([s1 EXCEPT !.cur = Null], TRUE, TRUE) ELSE s1

\* A store whose display effect does not depend on the graph: a mutation
\* publishes nothing.
Mutate_SkipsEffects(s, u) ==
    [s EXCEPT !.err = IF u.err = NoErr THEN Null ELSE u.err, !.data = u.data]

\* setError(null); setManagedMapData(updater); then the effects.
Mutate(s, u) ==
    LET s1 == [s EXCEPT !.err = IF u.err = NoErr THEN Null ELSE u.err, !.data = u.data]
    IN  IF u.changed THEN Settle(s1, TRUE, TRUE) ELSE s1

addHotspotUpdater(prevMapData, targetMapId, newHotspot, newMapImageUrl) ==
    LET newMapData == DeepCopy(prevMapData)
    IN  IF targetMapId \notin DOMAIN newMapData
        THEN Kept(prevMapData, "Cannot add hotspot: Target map definition not found")
        ELSE LET pushed == [newMapData EXCEPT ![targetMapId].hotspots = Append(@, newHotspot)]
                 newMapDefinitionId == Get(newHotspot, "link_to_map_id")
             IN  IF /\ Get(newHotspot, "linkType") = "map"
                    /\ Truthy(newMapDefinitionId)
                    /\ Truthy(newMapImageUrl)
                 THEN IF newMapDefinitionId \in DOMAIN pushed
                      THEN Replaced(pushed, "Consistency Error: Map ID already exists")
                      ELSE Replaced((newMapDefinitionId :>
                                        [imageUrl |-> newMapImageUrl, hotspots |-> <<>>])
                                    @@ pushed, NoErr)
                 ELSE Replaced(pushed, NoErr)

addHotspotAndMapDefinition(s, targetMapId, newHotspot, newMapImageUrl) ==
    Mutate(s, addHotspotUpdater(s.data, targetMapId, newHotspot, newMapImageUrl))

\* Is some hotspot of the collection a map link to linkedMapId?
IsLinkedElsewhere(newMapData, linkedMapId) ==
    \E mapId \in DOMAIN newMapData :
        \E i \in 1..Len(newMapData[mapId].hotspots) :
            LET hs == newMapData[mapId].hotspots[i]
            IN  Get(hs, "linkType") = "map" /\ Get(hs, "link_to_map_id") = linkedMapId

RemoveKey(f, k) == [j \in DOMAIN f \ {k} |-> f[j]]

\* A delete that raises the error for a hotspot id that is not on the map.
deleteHotspotUpdater_ReportsMiss(prevMapData, targetMapId, hotspotIdToDelete) ==
    LET newMapData == DeepCopy(prevMapData)
    IN  IF targetMapId \notin DOMAIN newMapData
        THEN Kept(prevMapData, "Erro ao deletar hotspot: Mapa alvo nao encontrado")
        ELSE LET hotspots == newMapData[targetMapId].hotspots
                 found == {i \in 1..Len(hotspots) : Get(hotspots[i], "id") = hotspotIdToDelete}
                 first == CHOOSE i \in found : \A j \in found : i <= j
                 linkedMapId ==
                     IF found # {} /\ Get(hotspots[first], "linkType") = "map"
                     THEN Get(hotspots[first], "link_to_map_id") ELSE Undefined
                 IsOther(hs) == Get(hs, "id") # hotspotIdToDelete
                 filtered == [newMapData EXCEPT ![targetMapId].hotspots = SelectSeq(hotspots, IsOther)]
             IN  IF Len(filtered[targetMapId].hotspots) = Len(hotspots)
                 THEN Kept(prevMapData, "Aviso: Hotspot nao encontrado no mapa")
                 ELSE IF /\ Truthy(linkedMapId)
                         /\ linkedMapId \in DOMAIN filtered
                         /\ ~IsLinkedElsewhere(filtered, linkedMapId)
                 THEN Replaced(RemoveKey(filtered, linkedMapId), NoErr)
                 ELSE Replaced(filtered, NoErr)

\* A delete whose cleanup goes on to the maps only the removed map linked to.
deleteHotspotUpdater_Cascades(prevMapData, targetMapId, hotspotIdToDelete) ==
    LET newMapData == DeepCopy(prevMapData)
    IN  IF targetMapId \notin DOMAIN newMapData
        THEN Kept(prevMapData, "Erro ao deletar hotspot: Mapa alvo nao encontrado")
        ELSE LET hotspots == newMapData[targetMapId].hotspots
                 found == {i \in 1..Len(hotspots) : Get(hotspots[i], "id") = hotspotIdToDelete}
                 first == CHOOSE i \in found : \A j \in found : i <= j
                 linkedMapId ==
                     IF found # {} /\ Get(hotspots[first], "linkType") = "map"
                     THEN Get(hotspots[first], "link_to_map_id") ELSE Undefined
                 IsOther(hs) == Get(hs, "id") # hotspotIdToDelete
                 filtered == [newMapData EXCEPT ![targetMapId].hotspots = SelectSeq(hotspots, IsOther)]
             IN  IF Len(filtered[targetMapId].hotspots) = Len(hotspots)
                 THEN Kept(prevMapData, NoErr)
                 ELSE IF /\ Truthy(linkedMapId)
                         /\ linkedMapId \in DOMAIN filtered
                         /\ ~IsLinkedElsewhere(filtered, linkedMapId)
                 THEN LET after == RemoveKey(filtered, linkedMapId)
                          gone == filtered[linkedMapId].hotspots
                          orphans == {k \in DOMAIN after :
                                        /\ \E i \in 1..Len(gone) :
                                              /\ Get(gone[i], "linkType") = "map"
                                              /\ Get(gone[i], "link_to_map_id") = k
                                        /\ ~IsLinkedElsewhere(after, k)}
                      IN  Replaced([k \in DOMAIN after \ orphans |-> after[k]], NoErr)
                 ELSE Replaced(filtered, NoErr)

deleteHotspotUpdater(prevMapData, targetMapId, hotspotIdToDelete) ==
    LET newMapData == DeepCopy(prevMapData)
    IN  IF targetMapId \notin DOMAIN newMapData
        THEN Kept(prevMapData, "Erro ao deletar hotspot: Mapa alvo nao encontrado")
        ELSE LET hotspots == newMapData[targetMapId].hotspots
                 found == {i \in 1..Len(hotspots) : Get(hotspots[i], "id") = hotspotIdToDelete}
                 first == CHOOSE i \in found : \A j \in found : i <= j
                 linkedMapId ==
                     IF found # {} /\ Get(hotspots[first], "linkType") = "map"
                     THEN Get(hotspots[first], "link_to_map_id") ELSE Undefined
                 IsOther(hs) == Get(hs, "id") # hotspotIdToDelete
                 filtered == [newMapData EXCEPT ![targetMapId].hotspots = SelectSeq(hotspots, IsOther)]
             IN  IF Len(filtered[targetMapId].hotspots) = Len(hotspots)
                 THEN Kept(prevMapData, NoErr)
                 ELSE IF /\ Truthy(linkedMapId)
                         /\ linkedMapId \in DOMAIN filtered
                         /\ ~IsLinkedElsewhere(filtered, linkedMapId)
                 THEN Replaced(RemoveKey(filtered, linkedMapId), NoErr)
                 ELSE Replaced(filtered, NoErr)

deleteHotspot(s, targetMapId, hotspotIdToDelete) ==
    Mutate(s, deleteHotspotUpdater(s.data, targetMapId, hotspotIdToDelete))

\* { ...old, ...newDetails }
Spread(old, newDetails) == newDetails @@ old

\* An update that says nothing when the hotspot id is not on the target map.
updateHotspotUpdater_SilentMiss(prevMapData, targetMapId, hotspotIdToUpdate, newDetails) ==
    LET newMapData == DeepCopy(prevMapData)
    IN  IF targetMapId \notin DOMAIN newMapData
        THEN Kept(prevMapData, "Cannot update hotspot: Map definition not found")
        ELSE LET hotspots == newMapData[targetMapId].hotspots
                 found == {i \in 1..Len(hotspots) : Get(hotspots[i], "id") = hotspotIdToUpdate}
             IN  IF found = {}
                 THEN Kept(prevMapData, NoErr)
                 ELSE LET hotspotIndex == CHOOSE i \in found : \A j \in found : i <= j
                      IN  Replaced([newMapData EXCEPT ![targetMapId].hotspots[hotspotIndex] =
                                        Spread(@, newDetails)], NoErr)

updateHotspotUpdater(prevMapData, targetMapId, hotspotIdToUpdate, newDetails) ==
    LET newMapData == DeepCopy(prevMapData)
    IN  IF targetMapId \notin DOMAIN newMapData
        THEN Kept(prevMapData, "Cannot update hotspot: Map definition not found")
        ELSE LET hotspots == newMapData[targetMapId].hotspots
                 found == {i \in 1..Len(hotspots) : Get(hotspots[i], "id") = hotspotIdToUpdate}
             IN  IF found = {}
                 THEN Kept(prevMapData, "Cannot update hotspot: Hotspot not found in map")
                 ELSE LET hotspotIndex == CHOOSE i \in found : \A j \in found : i <= j
                      IN  Replaced([newMapData EXCEPT ![targetMapId].hotspots[hotspotIndex] =
                                        Spread(@, newDetails)], NoErr)

updateHotspotDetails(s, targetMapId, hotspotIdToUpdate, newDetails) ==
    Mutate(s, updateHotspotUpdater(s.data, targetMapId, hotspotIdToUpdate, newDetails))

\* String.prototype.trim, new URL(...) and startsWith('/') on the URL texts
\* the model feeds in.
Trim(u) ==
    CASE u = "   " -> ""
      [] u = " /img/new.png " -> "/img/new.png"
      [] OTHER -> u
IsParseableUrl(u) == u \in {"https://host/new.png"}
StartsWithSlash(u) == u \in {"/img/new.png", "/img/a.png", "/img/b.png", "/img/c.png"}

\* An image update that validates the trimmed text but stores the text as given.
updateMapImageUpdater_StoresUntrimmed(prevMapData, mapId, newImageUrl) ==
    LET newMapData == DeepCopy(prevMapData)
        trimmedUrl == Trim(newImageUrl)
    IN  IF mapId \notin DOMAIN newMapData
        THEN Kept(prevMapData, "Cannot update image URL: Map definition not found")
        ELSE IF ~Truthy(trimmedUrl)
        THEN Kept(prevMapData, "New image URL cannot be empty when updating.")
        ELSE IF ~IsParseableUrl(trimmedUrl) /\ ~StartsWithSlash(trimmedUrl)
        THEN Kept(prevMapData, "Invalid image URL format when updating.")
        ELSE Replaced([newMapData EXCEPT ![mapId].imageUrl = newImageUrl], NoErr)

updateMapImageUpdater(prevMapData, mapId, newImageUrl) ==
    LET newMapData == DeepCopy(prevMapData)
        trimmedUrl == Trim(newImageUrl)
    IN  IF mapId \notin DOMAIN newMapData
        THEN Kept(prevMapData, "Cannot update image URL: Map definition not found")
        ELSE IF ~Truthy(trimmedUrl)
        THEN Kept(prevMapData, "New image URL cannot be empty when updating.")
        ELSE IF ~IsParseableUrl(trimmedUrl) /\ ~StartsWithSlash(trimmedUrl)
        THEN Kept(prevMapData, "Invalid image URL format when updating.")
        ELSE Replaced([newMapData EXCEPT ![mapId].imageUrl = trimmedUrl], NoErr)

updateMapImageUrl(s, mapId, newImageUrl) ==
    Mutate(s, updateMapImageUpdater(s.data, mapId, newImageUrl))

\* ------------------------------------------------- whole-document load
\* What loadNewMapData does with its text: JSON.parse throws on BadText.
LoadOutcome(input) ==
    IF input.t = "badtext" THEN [ok |-> FALSE, msg |-> "Failed to load new data: Invalid JSON format."]
    ELSE LET n == normalizeMapData(input)
         IN  IF n.threw
             THEN [ok |-> FALSE, msg |-> "Failed to load new data: Invalid JSON format."]
             ELSE IF Len(n.keys) > 0
             THEN [ok |-> TRUE, data |-> n.data, newRootId |-> n.keys[1]]
             ELSE [ok |-> FALSE, msg |-> "Failed to load new data: Invalid JSON structure."]

\* A load that forgets to empty the view-transform cache.
loadNewMapData_KeepsCache(s, input) ==
    LET r == LoadOutcome(input)
    IN  IF r.ok
        THEN Settle([s EXCEPT !.data = r.data, !.cur = r.newRootId,
                              !.disp = DisplayOf(r.data[r.newRootId]),
                              !.hist = <<>>, !.err = Null, !.edit = "none"],
                    TRUE, TRUE)
        ELSE [s EXCEPT !.err = r.msg]

\* A load that resets the edit action before it looks at its input.
loadNewMapData_ResetsEditFirst(s, input) ==
    LET r == LoadOutcome(input)
    IN  IF r.ok
        THEN Settle([s EXCEPT !.data = r.data, !.cur = r.newRootId,
                              !.disp = DisplayOf(r.data[r.newRootId]),
                              !.hist = <<>>, !.err = Null, !.edit = "none",
                              !.xf = NoTransforms],
                    TRUE, TRUE)
        ELSE [s EXCEPT !.err = r.msg, !.edit = "none"]

loadNewMapData(s, input) ==
    LET r == LoadOutcome(input)
    IN  IF r.ok
        THEN Settle([s EXCEPT !.data = r.data, !.cur = r.newRootId,
                              !.disp = DisplayOf(r.data[r.newRootId]),
                              !.hist = <<>>, !.err = Null, !.edit = "none",
                              !.xf = NoTransforms],
                    TRUE, TRUE)
        ELSE [s EXCEPT !.err = r.msg]

\* ------------------------------------------------- view-transform cache
updateMapViewTransform(s, mapId, newTransform) ==
    IF ~Truthy(mapId) THEN s
    ELSE IF mapId \in DOMAIN s.xf /\ s.xf[mapId] = newTransform THEN s
    ELSE [s EXCEPT !.xf = (mapId :> newTransform) @@ s.xf]

setEditAction(s, action) == [s EXCEPT !.edit = action]

\* The rootMapId prop changes: a render with the new prop, then the effects.
changeRootProp(s, rootMapId) ==
    IF rootMapId = s.root THEN s ELSE Settle([s EXCEPT !.root = rootMapId], TRUE, FALSE)

\* ------------------------------------------------------- input universe
MapHs(id, target) ==
    [id |-> id, x |-> "10", y |-> "10", width |-> "20", height |-> "20",
     linkType |-> "map", link_to_map_id |-> target]
UrlHs(id) ==
    [id |-> id, x |-> "10", y |-> "10", width |-> "20", height |-> "20",
     linkType |-> "url", linkedUrl |-> "https://e.x/", urlTarget |-> "_self"]
UrlHsNoTarget(id) ==
    [id |-> id, x |-> "10", y |-> "10", width |-> "20", height |-> "20",
     linkType |-> "url", linkedUrl |-> "https://e.x/"]

MapEntry(key, img, hotspots) ==
    [key |-> key,
     val |-> JObj([imageUrl |-> img,
                   hotspots |-> JArr([i \in 1..Len(hotspots) |-> JObj(hotspots[i])])])]

\* The scenario of the specification: A links to B.
DocScenario ==
    JMap(<<MapEntry("A", "/img/a.png", <<MapHs("h1", "B")>>),
           MapEntry("B", "/img/b.png", <<>>)>>)
\* A chain A -> B -> C.
DocChain ==
    JMap(<<MapEntry("A", "/img/a.png", <<MapHs("h1", "B")>>),
           MapEntry("B", "/img/b.png", <<MapHs("h2", "C")>>),
           MapEntry("C", "/img/c.png", <<>>)>>)
\* A cycle whose first key is not A, with two links from A to B.
DocCycle ==
    JMap(<<MapEntry("B", "/img/b.png", <<MapHs("h2", "A")>>),
           MapEntry("A", "/img/a.png", <<MapHs("h1", "B"), MapHs("h3", "B")>>)>>)
\* Two hotspots of one map sharing an id, both linking to B.
DocSameId ==
    JMap(<<MapEntry("A", "/img/a.png", <<MapHs("h1", "B"), MapHs("h1", "B")>>),
           MapEntry("B", "/img/b.png", <<>>)>>)

\* A document whose second key in the text is integer-like.
DocNumericKey ==
    JMap(<<MapEntry("B", "/img/b.png", <<>>), MapEntry("1", "/img/a.png", <<>>)>>)

ValidDocs == {DocScenario, DocChain, DocCycle, DocSameId}
\* Unparseable text, and parsed values that are not a non-empty keyed mapping.
InvalidInputs == {BadText, JNull, JNum, JMap(<<>>), JArr(<<>>), JArr(<<JNull>>)}

MapIds == {"A", "B", "C"}
NavTargets == MapIds \cup {"Z", "maps/x"}
TargetMapIds == MapIds \cup {"Z"}
HotspotIds == {"h1", "h2", "h3"}
EditActions == {"none", "adding", "selecting_for_deletion", "changing_root_image",
                "editing_hotspot", "selecting_for_edit"}

TotalHotspots(g) ==
    LET ks == SetToSeq(DOMAIN g)
        F[i \in 0..Len(ks)] == IF i = 0 THEN 0 ELSE F[i - 1] + Len(g[ks[i]].hotspots)
    IN  F[Len(ks)]

\* ------------------------------------------------------------- actions
Become(s, op, out) ==
    /\ managedMapData' = s.data
    /\ currentMapId' = s.cur
    /\ currentMapDisplayData' = s.disp
    /\ navigationHistory' = s.hist
    /\ error' = s.err
    /\ editAction' = s.edit
    /\ mapViewTransforms' = s.xf
    /\ initialRootMapId' = s.root
    /\ prevInitialRootMapIdRef' = s.prevRoot
    /\ lastOp' = [op |-> op, out |-> out]
    /\ UNCHANGED viewer

\* The hook right after mount: useState initializers, then the mount effects.
Mounted(doc, rootMapId) ==
    Settle([data |-> DeepCopy(normalizeMapData(doc).data), cur |-> Null,
            disp |-> NoDisplay, hist |-> <<>>, err |-> Null, edit |-> "none",
            xf |-> NoTransforms, root |-> rootMapId, prevRoot |-> Null],
           TRUE, TRUE)

\* MapImageViewer and the modal state of Mapdraw right after mount.  Numbers
\* are exact rationals <<numerator, denominator>>.  fileReads holds the
\* FileReaders whose onload is still to come, numbered in the order they were
\* started, with the map that was current then; readApplied is the number of
\* the read whose text was last handed to loadNewMapData.  imagePending says
\* that the load event of the <img> is still to come; fitTimers holds the
\* setTimeout(applyInitialState, 0) calls that have not run yet.
ViewerIdle ==
    [isEditMode |-> FALSE, isDrawing |-> FALSE, startCoords |-> <<>>,
     currentRect |-> <<>>,
     transformCurrentData |-> [scale |-> <<1, 1>>, x |-> <<0, 1>>, y |-> <<0, 1>>],
     newHotspotRect |-> <<>>, isModalOpen |-> FALSE, drawnFrom |-> <<>>,
     hotspotToDeleteId |-> Null, hotspotToEditId |-> Null,
     fileReads |-> {}, readsStarted |-> 0, readApplied |-> 0,
     isImageLoading |-> TRUE, isReadyToSaveChanges |-> FALSE, imagePending |-> TRUE,
     fitTimers |-> {}]

HookInit(docs, roots) ==
    \E doc \in docs, rootMapId \in roots :
        LET s == Mounted(doc, rootMapId)
        IN  /\ managedMapData = s.data
            /\ currentMapId = s.cur
            /\ currentMapDisplayData = s.disp
            /\ navigationHistory = s.hist
            /\ error = s.err
            /\ editAction = s.edit
            /\ mapViewTransforms = s.xf
            /\ initialRootMapId = s.root
            /\ prevInitialRootMapIdRef = s.prevRoot
            /\ lastOp = [op |-> "mount", out |-> "ok"]
            /\ viewer = ViewerIdle

\* How a handler ended, as its caller can tell from the hook's state.
Outcome(s, t) ==
    IF t.err # Null THEN "error"
    ELSE IF t.data = s.data /\ t.cur = s.cur /\ t.hist = s.hist /\ t.xf = s.xf
            /\ t.edit = s.edit /\ t.root = s.root
    THEN "unchanged" ELSE "ok"

NavigateToChild(targets) ==
    \E childMapId \in targets :
        /\ Len(navigationHistory) < MaxHistory
        /\ LET t == navigateToChild(St, childMapId)
           IN  Become(t, "navigateToChild", Outcome(St, t))

NavigateBack ==
    LET t == navigateBack(St) IN Become(t, "navigateBack", Outcome(St, t))

AddHotspotAndMapDefinition(targets, hotspots, urls) ==
    \E targetMapId \in targets, newHotspot \in hotspots, url \in urls :
        /\ TotalHotspots(managedMapData) < MaxHotspots
        /\ LET t == addHotspotAndMapDefinition(St, targetMapId, newHotspot, url)
           IN  Become(t, "addHotspotAndMapDefinition", Outcome(St, t))

DeleteHotspot(targets, ids) ==
    \E targetMapId \in targets, id \in ids :
        LET t == deleteHotspot(St, targetMapId, id)
        IN  Become(t, "deleteHotspot", Outcome(St, t))

UpdateHotspotDetails(targets, ids, details) ==
    \E targetMapId \in targets, id \in ids, d \in details :
        LET t == updateHotspotDetails(St, targetMapId, id, d)
        IN  Become(t, "updateHotspotDetails", Outcome(St, t))

UpdateMapImageUrl(targets, urls) ==
    \E mapId \in targets, url \in urls :
        LET t == updateMapImageUrl(St, mapId, url)
        IN  Become(t, "updateMapImageUrl", Outcome(St, t))

LoadNewMapData(inputs) ==
    \E input \in inputs :
        LET t == loadNewMapData(St, input)
        IN  Become(t, "loadNewMapData", Outcome(St, t))

UpdateMapViewTransform(ids, transforms) ==
    \E mapId \in ids, tr \in transforms :
        LET t == updateMapViewTransform(St, mapId, tr)
        IN  Become(t, "updateMapViewTransform", Outcome(St, t))

SetEditAction(actions) ==
    \E a \in actions :
        LET t == setEditAction(St, a) IN Become(t, "setEditAction", Outcome(St, t))

ChangeRootProp(roots) ==
    \E rootMapId \in roots :
        LET t == changeRootProp(St, rootMapId)
        IN  Become(t, "changeRootProp", Outcome(St, t))

\* ------------------------------------- Spec: navigation over documents
Init == HookInit(ValidDocs, {"A"})

Next ==
    \/ NavigateToChild(NavTargets)
    \/ NavigateBack
    \/ DeleteHotspot(TargetMapIds, HotspotIds)
    \/ LoadNewMapData(ValidDocs \cup {BadText})

Spec == Init /\ [][Next]_vars

\* ------------------------------------------ SpecStore: the graph store
\* Hotspots handed to addHotspotAndMapDefinition: a link to a map id that may
\* or may not exist yet, and a URL hotspot without the optional urlTarget.
NewHotspots == {MapHs("n1", "C"), MapHs("n1", "B"), UrlHsNoTarget("n2")}
NewMapImageUrls == {"", "/img/new.png"}
ImageUrlInputs == {"   ", " /img/new.png ", "new.png"}

\* Partial<Omit<Hotspot, 'id'>> values: a bare switch of the link type and
\* the two objects the edit modal builds.
DetailsSwitchToUrl == [linkType |-> "url", linkedUrl |-> "https://e.x/"]
DetailsModalUrl ==
    [title |-> "T", linkType |-> "url", linkedUrl |-> "https://e.x/",
     urlTarget |-> "_self", link_to_map_id |-> Undefined]
DetailsModalMap ==
    [title |-> "T", linkType |-> "map", link_to_map_id |-> "B",
     linkedUrl |-> Undefined, urlTarget |-> Undefined]
NewDetails == {DetailsSwitchToUrl, DetailsModalUrl, DetailsModalMap}

\* The inputs the store is driven with; the wider sets above are what the
\* properties apply the handlers to in every state reached.
StoreTargets == {"A", "Z"}
StoreHotspotIds == {"h1"}
StoreNewHotspots == {MapHs("n1", "C"), UrlHsNoTarget("n2")}
StoreDetails == {DetailsSwitchToUrl, DetailsModalMap}
StoreImageUrls == {"   ", " /img/new.png "}

InitStore == HookInit({DocScenario}, {"A"})

NextStore ==
    \/ AddHotspotAndMapDefinition(StoreTargets, StoreNewHotspots, NewMapImageUrls)
    \/ UpdateHotspotDetails(StoreTargets, StoreHotspotIds, StoreDetails)
    \/ DeleteHotspot(StoreTargets, {"h1", "n1"})
    \/ UpdateMapImageUrl({"B", "Z"}, StoreImageUrls)
    \/ NavigateToChild({"B"})
    \/ NavigateBack
    \/ LoadNewMapData({DocScenario})

SpecStore == InitStore /\ [][NextStore]_vars

\* ------------------------------- SpecLoad: whole-document replacement
LoadInputs == {DocScenario, DocCycle, DocNumericKey} \cup InvalidInputs
CacheTransforms ==
    {[scale |-> <<1, 1>>, x |-> <<0, 1>>, y |-> <<0, 1>>],
     [scale |-> <<2, 1>>, x |-> <<-100, 1>>, y |-> <<0, 1>>]}

InitLoad == HookInit({DocScenario, DocCycle}, {"A"})

NextLoad ==
    \/ LoadNewMapData(LoadInputs)
    \/ SetEditAction({"none", "adding"})
    \/ UpdateMapViewTransform({"A"}, CacheTransforms)
    \/ NavigateToChild(MapIds)
    \/ NavigateBack

SpecLoad == InitLoad /\ [][NextLoad]_vars

\* --------------------------------------- SpecRoot: the rootMapId prop
\* The host mounts the component with a root id and may pass another one
\* later; "Z" is an id the document does not define.
InitRoot == HookInit({DocScenario, DocChain}, {"A", "Z"})

NextRoot ==
    \/ ChangeRootProp({"A", "B", "Z"})
    \/ NavigateToChild({"B", "C", "Z"})
    \/ NavigateBack
    \/ DeleteHotspot({"A"}, {"h1", "h3"})

SpecRoot == InitRoot /\ [][NextRoot]_vars

\* ---------------------------------- SpecNorm: documents with raw hotspots
\* A hotspot as it may stand in an imported document: any of the link
\* properties and one of the geometry properties may be absent.
ImportedHotspot(linkType, mapId, url, target, lacking) ==
    LET Opt(k, v) == [j \in (IF v = Undefined THEN {} ELSE {k}) |-> v]
        geometry == [f \in {"id", "x", "y", "width", "height"} \ {lacking} |->
                        IF f = "id" THEN "r1" ELSE "10"]
    IN  geometry @@ Opt("linkType", linkType) @@ Opt("link_to_map_id", mapId)
                 @@ Opt("linkedUrl", url) @@ Opt("urlTarget", target)

ImportedHotspots ==
    {ImportedHotspot(linkType, mapId, url, target, lacking) :
        linkType \in {Undefined, "map", "url"}, mapId \in {Undefined, "B"},
        url \in {Undefined, "https://e.x/"}, target \in {Undefined, "_self"},
        lacking \in {"none", "id", "x", "y", "width", "height"}}

\* The document {A: [hs], B: []}.
ImportedDoc(hs) ==
    JMap(<<MapEntry("A", "/img/a.png", <<hs>>), MapEntry("B", "/img/b.png", <<>>)>>)

InitNorm == HookInit({DocScenario}, {"A"})

NextNorm ==
    \/ LoadNewMapData({ImportedDoc(hs) : hs \in ImportedHotspots})
    \/ NavigateToChild({"B"})
    \/ NavigateBack

SpecNorm == InitNorm /\ [][NextNorm]_vars

\* ------------------------------------------------ drawing geometry
\* JS numbers are modelled as exact rationals in lowest terms.
Abs(n) == IF n < 0 THEN -n ELSE n

RECURSIVE GCD(_, _)
GCD(a, b) == IF b = 0 THEN a ELSE GCD(b, a % b)

Rat(n, d) ==
    LET g == GCD(Abs(n), Abs(d))
        sgn == IF d < 0 THEN -1 ELSE 1
    IN  <<(sgn * n) \div g, (sgn * d) \div g>>
Num(n) == <<n, 1>>
RAdd(a, b) == Rat(a[1] * b[2] + b[1] * a[2], a[2] * b[2])
RSub(a, b) == Rat(a[1] * b[2] - b[1] * a[2], a[2] * b[2])
RMul(a, b) == Rat(a[1] * b[1], a[2] * b[2])
RDiv(a, b) == Rat(a[1] * b[2], a[2] * b[1])
RLe(a, b) == a[1] * b[2] <= b[1] * a[2]
RLt(a, b) == a[1] * b[2] < b[1] * a[2]
RMin(a, b) == IF RLe(a, b) THEN a ELSE b
RMax(a, b) == IF RLe(a, b) THEN b ELSE a
RAbs(a) == <<Abs(a[1]), a[2]>>

DEFAULT_CANVAS_WIDTH == 3840
DEFAULT_CANVAS_HEIGHT == 2160
canvasWidth == Num(DEFAULT_CANVAS_WIDTH)
canvasHeight == Num(DEFAULT_CANVAS_HEIGHT)

\* A conversion that forgets the pan of the view.
relativeRect_IgnoresPan(currentRect, t) ==
    LET w0 == RMul(RDiv(RDiv(currentRect.width, t.scale), canvasWidth), Num(100))
        h0 == RMul(RDiv(RDiv(currentRect.height, t.scale), canvasHeight), Num(100))
        x == RMax(Num(0), RMin(RMul(RDiv(RDiv(currentRect.x, t.scale), canvasWidth), Num(100)), Num(100)))
        y == RMax(Num(0), RMin(RMul(RDiv(RDiv(currentRect.y, t.scale), canvasHeight), Num(100)), Num(100)))
    IN  [x |-> x, y |-> y,
         width |-> RMax(Rat(1, 10), RMin(w0, RSub(Num(100), x))),
         height |-> RMax(Rat(1, 10), RMin(h0, RSub(Num(100), y)))]

\* The rectangle handleMouseUp / finalizeDrawing hands to onHotspotDrawn.
relativeRect(currentRect, t) ==
    LET imageX == RDiv(RSub(currentRect.x, t.x), t.scale)
        imageY == RDiv(RSub(currentRect.y, t.y), t.scale)
        imageWidth == RDiv(currentRect.width, t.scale)
        imageHeight == RDiv(currentRect.height, t.scale)
        x0 == RMul(RDiv(imageX, canvasWidth), Num(100))
        y0 == RMul(RDiv(imageY, canvasHeight), Num(100))
        w0 == RMul(RDiv(imageWidth, canvasWidth), Num(100))
        h0 == RMul(RDiv(imageHeight, canvasHeight), Num(100))
        x == RMax(Num(0), RMin(x0, Num(100)))
        y == RMax(Num(0), RMin(y0, Num(100)))
    IN  [x |-> x, y |-> y,
         width |-> RMax(Rat(1, 10), RMin(w0, RSub(Num(100), x))),
         height |-> RMax(Rat(1, 10), RMin(h0, RSub(Num(100), y)))]

\* Where a hotspot shows on screen: positionStyle places it in percent of the
\* transformed content, which has the size of the canvas.
screenRect(hotspot, t) ==
    LET Px(pct, canvas) == RMul(RDiv(pct, Num(100)), canvas)
    IN  [x |-> RAdd(t.x, RMul(t.scale, Px(hotspot.x, canvasWidth))),
         y |-> RAdd(t.y, RMul(t.scale, Px(hotspot.y, canvasHeight))),
         width |-> RMul(t.scale, Px(hotspot.width, canvasWidth)),
         height |-> RMul(t.scale, Px(hotspot.height, canvasHeight))]

\* The drawing overlay fills the transformed content: a pointer event reaches
\* it only at a point whose image coordinates lie on the canvas.
OnOverlay(p, t) ==
    LET ix == RDiv(RSub(p.x, t.x), t.scale)
        iy == RDiv(RSub(p.y, t.y), t.scale)
    IN  /\ RLe(Num(0), ix) /\ RLe(ix, canvasWidth)
        /\ RLe(Num(0), iy) /\ RLe(iy, canvasHeight)

OverlayShown(v, action) == v.isEditMode /\ action = "adding"

\* A press that starts a drawing in edit mode whatever the edit action.
handleMouseDown_AnyAction(v, action, coords) ==
    IF ~v.isEditMode THEN v
    ELSE [v EXCEPT !.isDrawing = TRUE, !.startCoords = <<coords>>,
                   !.currentRect = <<[x |-> coords.x, y |-> coords.y,
                                      width |-> Num(0), height |-> Num(0)]>>]

handleMouseDown(v, action, coords) ==
    IF ~v.isEditMode \/ action # "adding" THEN v
    ELSE [v EXCEPT !.isDrawing = TRUE, !.startCoords = <<coords>>,
                   !.currentRect = <<[x |-> coords.x, y |-> coords.y,
                                      width |-> Num(0), height |-> Num(0)]>>]

handleMouseMove(v, coords) ==
    IF ~v.isDrawing \/ v.startCoords = <<>> THEN v
    ELSE LET start == v.startCoords[1]
         IN  [v EXCEPT !.currentRect =
                 <<[x |-> RMin(start.x, coords.x), y |-> RMin(start.y, coords.y),
                    width |-> RAbs(RSub(start.x, coords.x)),
                    height |-> RAbs(RSub(start.y, coords.y))]>>]

\* Mapdraw.handleHotspotDrawn: keeps the rectangle and opens the modal.
handleHotspotDrawn(v, action, rect, from) ==
    IF action # "adding" THEN v
    ELSE [v EXCEPT !.newHotspotRect = <<rect>>, !.isModalOpen = TRUE,
                   !.drawnFrom = <<from>>]

\* handleMouseUp, also bound to mouseleave; finalizeDrawing has the same body.
handleMouseUp(v, action) ==
    LET cleared == [v EXCEPT !.isDrawing = FALSE, !.startCoords = <<>>,
                             !.currentRect = <<>>]
    IN  IF ~v.isDrawing \/ v.startCoords = <<>> \/ v.currentRect = <<>> THEN cleared
        ELSE LET r == v.currentRect[1]
             IN  IF RLt(Num(1), r.width) /\ RLt(Num(1), r.height)
                 THEN handleHotspotDrawn(cleared, action,
                                         relativeRect(r, v.transformCurrentData), r)
                 ELSE cleared

handleTransformed(v, t) == [v EXCEPT !.transformCurrentData = t]

\* Mapdraw.handleModalCancel: closes the modal and forgets the rectangle; when
\* an edit was in progress it also forgets the hotspot being edited.
handleModalCancel(v, action) ==
    [v EXCEPT !.isModalOpen = FALSE, !.newHotspotRect = <<>>, !.drawnFrom = <<>>,
              !.hotspotToEditId = IF action = "editing_hotspot" THEN Null ELSE @]

\* The edit action handleModalCancel leaves behind.
handleModalCancelAction(v, action) ==
    IF action = "editing_hotspot"
    THEN (IF v.isEditMode THEN "selecting_for_edit" ELSE "none")
    ELSE action

\* toggleEditMode on the way out, with a mutation that keeps the selections.
toggleEditMode_KeepsSelection(v) == [v EXCEPT !.isEditMode = ~v.isEditMode]

\* Mapdraw.toggleEditMode: leaving edit mode resets the action (see the
\* ToggleEditMode action) and both selections.
toggleEditMode(v) ==
    IF v.isEditMode
    THEN [v EXCEPT !.isEditMode = FALSE, !.hotspotToDeleteId = Null,
                   !.hotspotToEditId = Null]
    ELSE [v EXCEPT !.isEditMode = TRUE]

\* A toggle that leaves the edit action as it is.
toggleEditModeAction_KeepsAction(v, action) == action

\* The edit action toggleEditMode leaves behind.
toggleEditModeAction(v, action) == IF v.isEditMode THEN "none" ELSE action

\* -------------------------------------------- SpecGeom: drawing a hotspot
PointerXs == {100, 102, 2000, 3838, 3840}
PointerYs == {50, 60, 1000}
Pointers == {[x |-> Num(px), y |-> Num(py)] : px \in PointerXs, py \in PointerYs}
ViewTransforms ==
    {[scale |-> Num(1), x |-> Num(0), y |-> Num(0)],
     [scale |-> Num(2), x |-> Num(-100), y |-> Num(0)],
     [scale |-> Rat(1, 2), x |-> Num(100), y |-> Num(50)]}

\* A step of the viewer or of Mapdraw's own state; the hook's state other
\* than editAction is left alone.
ViewerBecomes(v, action, op) ==
    /\ viewer' = v
    /\ editAction' = action
    /\ lastOp' = [op |-> op, out |-> IF v = viewer /\ action = editAction
                                     THEN "unchanged" ELSE "ok"]
    /\ UNCHANGED <<managedMapData, currentMapId, currentMapDisplayData,
                   navigationHistory, error, mapViewTransforms, initialRootMapId,
                   prevInitialRootMapIdRef>>

ToggleEditMode ==
    /\ ~viewer.isModalOpen /\ editAction # "changing_root_image"
    /\ ViewerBecomes(toggleEditMode(viewer), toggleEditModeAction(viewer, editAction),
                     "toggleEditMode")

\* The "add hotspot" control, shown in edit mode.
ChooseAdding ==
    /\ viewer.isEditMode /\ ~viewer.isModalOpen
    /\ ViewerBecomes(viewer, "adding", "setEditAction")

HandleMouseDown ==
    /\ OverlayShown(viewer, editAction) /\ ~viewer.isModalOpen
    /\ \E p \in Pointers :
          /\ OnOverlay(p, viewer.transformCurrentData)
          /\ ViewerBecomes(handleMouseDown(viewer, editAction, p), editAction,
                           "handleMouseDown")

HandleMouseMove ==
    /\ OverlayShown(viewer, editAction) /\ ~viewer.isModalOpen
    /\ \E p \in Pointers :
          /\ OnOverlay(p, viewer.transformCurrentData)
          /\ ViewerBecomes(handleMouseMove(viewer, p), editAction, "handleMouseMove")

HandleMouseUp ==
    /\ OverlayShown(viewer, editAction) /\ ~viewer.isModalOpen
    /\ ViewerBecomes(handleMouseUp(viewer, editAction), editAction, "handleMouseUp")

\* The TransformWrapper is disabled while the modal is open or a drawing is
\* in progress.
HandleTransformed ==
    /\ ~(viewer.isModalOpen \/ viewer.isDrawing)
    /\ \E t \in ViewTransforms :
          ViewerBecomes(handleTransformed(viewer, t), editAction, "handleTransformed")

HandleModalCancel ==
    /\ viewer.isModalOpen
    /\ ViewerBecomes(handleModalCancel(viewer, editAction),
                     handleModalCancelAction(viewer, editAction),
                     "handleModalCancel")

InitGeom == HookInit({DocScenario}, {"A"})

NextGeom ==
    \/ ToggleEditMode
    \/ ChooseAdding
    \/ HandleMouseDown
    \/ HandleMouseMove
    \/ HandleMouseUp
    \/ HandleTransformed
    \/ HandleModalCancel

SpecGeom == InitGeom /\ [][NextGeom]_vars

\* ------------------------------- SpecEdit: selecting, editing and importing
\* The hotspots MapImageViewer shows: it is mounted only with display data and
\* no error.
ShownHotspots ==
    IF currentMapDisplayData = NoDisplay \/ error # Null THEN {}
    ELSE LET hotspots == currentMapDisplayData[1].hotspots
         IN  {hotspots[i] : i \in 1..Len(hotspots)}

ShownHotspotIds == {Get(h, "id") : h \in ShownHotspots}

\* Array.prototype.find by id on the hotspots of a map: <<hotspot>> or <<>>.
FindHotspot(data, mapId, id) ==
    IF mapId = Null \/ mapId \notin DOMAIN data THEN <<>>
    ELSE LET hotspots == data[mapId].hotspots
             found == {i \in 1..Len(hotspots) : Get(hotspots[i], "id") = id}
         IN  IF found = {} THEN <<>>
             ELSE <<hotspots[CHOOSE i \in found : \A j \in found : i <= j]>>

\* A step of Mapdraw that changes both the hook's state and its own.
MapdrawBecomes(s, v, op) ==
    /\ managedMapData' = s.data
    /\ currentMapId' = s.cur
    /\ currentMapDisplayData' = s.disp
    /\ navigationHistory' = s.hist
    /\ error' = s.err
    /\ editAction' = s.edit
    /\ mapViewTransforms' = s.xf
    /\ initialRootMapId' = s.root
    /\ prevInitialRootMapIdRef' = s.prevRoot
    /\ viewer' = v
    /\ lastOp' = [op |-> op, out |-> IF v = viewer /\ Outcome(St, s) = "unchanged"
                                     THEN "unchanged" ELSE Outcome(St, s)]

\* Mapdraw.handleSelectHotspotForDeletion: selects, or deselects the selected.
handleSelectHotspotForDeletion(v, hotspotId) ==
    [v EXCEPT !.hotspotToDeleteId = IF @ = hotspotId THEN Null ELSE hotspotId]

\* Mapdraw.handleSelectHotspotForEditing: records the subject first, then
\* opens the modal on the hotspot when the current map has it.
handleSelectHotspotForEditing(s, v, selectedHotspotId) ==
    LET v1 == [v EXCEPT !.hotspotToEditId = selectedHotspotId]
        hotspotToEdit == FindHotspot(s.data, s.cur, selectedHotspotId)
    IN  IF hotspotToEdit = <<>> THEN [s |-> s, v |-> v1]
        ELSE [s |-> setEditAction(s, "editing_hotspot"),
              v |-> [v1 EXCEPT !.isModalOpen = TRUE,
                               !.newHotspotRect =
                                   <<[f \in {"x", "y", "width", "height"} |->
                                         Get(hotspotToEdit[1], f)]>>]]

\* Mapdraw.handleHotspotClick: follows a map link unless an edit action is in
\* progress; a URL link opens a window and changes no state.
handleHotspotClick(s, v, clickedHotspotId) ==
    LET hotspot == FindHotspot(s.data, s.cur, clickedHotspotId)
    IN  IF hotspot = <<>> THEN s
        ELSE IF v.isEditMode
                /\ s.edit \in {"selecting_for_deletion", "adding", "selecting_for_edit"}
        THEN s
        ELSE IF Get(hotspot[1], "linkType") = "map" /\ Truthy(Get(hotspot[1], "link_to_map_id"))
                /\ (~v.isEditMode \/ s.edit = "none")
        THEN navigateToChild(s, Get(hotspot[1], "link_to_map_id"))
        ELSE s

\* A click handler that hands every click on to Mapdraw, edit mode or not.
handleHotspotInteraction_IgnoresEditMode(s, v, hotspotId) ==
    IF v.isEditMode /\ s.edit = "selecting_for_deletion"
    THEN [s |-> s, v |-> handleSelectHotspotForDeletion(v, hotspotId)]
    ELSE IF v.isEditMode /\ s.edit = "selecting_for_edit"
    THEN handleSelectHotspotForEditing(s, v, hotspotId)
    ELSE IF hotspotId \in ShownHotspotIds
    THEN [s |-> handleHotspotClick(s, v, hotspotId), v |-> v]
    ELSE [s |-> s, v |-> v]

\* MapImageViewer.handleHotspotInteraction: a click on a hotspot selects it
\* while a selecting action is on, and reaches Mapdraw.handleHotspotClick only
\* outside edit mode.
handleHotspotInteraction(s, v, hotspotId) ==
    IF v.isEditMode /\ s.edit = "selecting_for_deletion"
    THEN [s |-> s, v |-> handleSelectHotspotForDeletion(v, hotspotId)]
    ELSE IF v.isEditMode /\ s.edit = "selecting_for_edit"
    THEN handleSelectHotspotForEditing(s, v, hotspotId)
    ELSE IF ~v.isEditMode /\ hotspotId \in ShownHotspotIds
    THEN [s |-> handleHotspotClick(s, v, hotspotId), v |-> v]
    ELSE [s |-> s, v |-> v]

\* AppControls.isBackEnabled: the Back control is disabled in edit mode.
isBackEnabled(s, v) == canGoBack(s) /\ ~v.isEditMode

\* A click on a shown map link outside edit mode.
ClickHotspot ==
    \E h \in {g \in ShownHotspots : Get(g, "linkType") = "map"} :
        /\ ~viewer.isEditMode
        /\ Len(navigationHistory) < MaxHistory
        /\ LET r == handleHotspotInteraction(St, viewer, Get(h, "id"))
           IN  MapdrawBecomes(r.s, r.v, "navigateToChild")

\* A click on the Back control while it is enabled.
BackControl == isBackEnabled(St, viewer) /\ NavigateBack

\* The edit branch of Mapdraw.handleModalSubmit.  The tab is the one
\* handleSelectHotspotForEditing chose; the modal shows no tabs while editing.
handleModalSubmitEditing(s, v, title, newMapUrlInput, newLinkedUrlInput) ==
    LET closed == [s |-> setEditAction(s, handleModalCancelAction(v, s.edit)),
                   v |-> handleModalCancel(v, s.edit)]
        committed(t) == [s |-> setEditAction(t, "selecting_for_edit"), v |-> closed.v]
        hotspotBeingEdited == FindHotspot(s.data, s.cur, v.hotspotToEditId)
        newTitleForHotspot == IF Trim(title) = "" THEN Undefined ELSE Trim(title)
    IN  IF s.cur = Null \/ v.hotspotToEditId = Null \/ hotspotBeingEdited = <<>>
        THEN closed
        ELSE LET hs == hotspotBeingEdited[1]
                 linked == Get(hs, "link_to_map_id")
             IN  IF Get(hs, "linkType") # "url"
                 THEN LET url == Trim(newMapUrlInput)
                      IN  IF ~Truthy(linked) \/ url = ""
                             \/ (~IsParseableUrl(url) /\ ~StartsWithSlash(url))
                          THEN [s |-> s, v |-> v]
                          ELSE LET t1 == updateHotspotDetails(s, s.cur, v.hotspotToEditId,
                                             [title |-> newTitleForHotspot, linkType |-> "map",
                                              link_to_map_id |-> linked,
                                              linkedUrl |-> Undefined, urlTarget |-> Undefined])
                                   original == IF linked \in DOMAIN s.data
                                               THEN s.data[linked].imageUrl ELSE Undefined
                               IN  committed(IF original # url
                                             THEN updateMapImageUrl(t1, linked, url) ELSE t1)
                 ELSE LET url == Trim(newLinkedUrlInput)
                      IN  IF url = "" \/ ~IsParseableUrl(url) THEN [s |-> s, v |-> v]
                          ELSE committed(updateHotspotDetails(s, s.cur, v.hotspotToEditId,
                                             [title |-> newTitleForHotspot, linkType |-> "url",
                                              linkedUrl |-> url,
                                              urlTarget |-> IF Truthy(Get(hs, "urlTarget"))
                                                            THEN Get(hs, "urlTarget")
                                                            ELSE "_blank",
                                              link_to_map_id |-> Undefined]))

MaxReads == 2

\* EditModeControls: the controls that pick an edit action.
ChooseEditAction(actions) ==
    /\ viewer.isEditMode /\ ~viewer.isModalOpen /\ editAction # "changing_root_image"
    /\ \E a \in actions :
          LET t == setEditAction(St, a) IN MapdrawBecomes(t, viewer, "setEditAction")

\* The control that starts picking a hotspot to edit.
ChooseSelectingForEdit == ChooseEditAction({"selecting_for_edit"})

\* MapImageViewer.handleHotspotInteraction in the selection modes.
SelectHotspotForDeletion ==
    /\ viewer.isEditMode /\ editAction = "selecting_for_deletion" /\ ~viewer.isModalOpen
    /\ \E id \in ShownHotspotIds :
          MapdrawBecomes(St, handleSelectHotspotForDeletion(viewer, id),
                         "handleSelectHotspotForDeletion")

\* The confirm button of the selected hotspot: Mapdraw.handleConfirmDeletion.
ConfirmDeletion ==
    /\ viewer.isEditMode /\ editAction = "selecting_for_deletion" /\ ~viewer.isModalOpen
    /\ viewer.hotspotToDeleteId \in ShownHotspotIds
    /\ IF currentMapId = Null THEN MapdrawBecomes(St, viewer, "handleConfirmDeletion")
       ELSE MapdrawBecomes(deleteHotspot(St, currentMapId, viewer.hotspotToDeleteId),
                           [viewer EXCEPT !.hotspotToDeleteId = Null],
                           "handleConfirmDeletion")

SelectHotspotForEditing ==
    /\ viewer.isEditMode /\ editAction = "selecting_for_edit" /\ ~viewer.isModalOpen
    /\ \E id \in ShownHotspotIds :
          LET r == handleSelectHotspotForEditing(St, viewer, id)
          IN  MapdrawBecomes(r.s, r.v, "handleSelectHotspotForEditing")

HandleModalSubmitEditing(titles, mapUrls, linkedUrls) ==
    /\ viewer.isModalOpen /\ editAction = "editing_hotspot"
    /\ \E title \in titles, mapUrl \in mapUrls, linkedUrl \in linkedUrls :
          LET r == handleModalSubmitEditing(St, viewer, title, mapUrl, linkedUrl)
          IN  MapdrawBecomes(r.s, r.v, "handleModalSubmit")

\* Mapdraw.handleFileSelected: starts a FileReader on the chosen file.  The
\* import control is shown outside edit mode.
HandleFileSelected(inputs) ==
    /\ ~viewer.isEditMode /\ editAction # "changing_root_image"
    /\ viewer.readsStarted < MaxReads
    /\ \E text \in inputs :
          MapdrawBecomes(St, [viewer EXCEPT
                                 !.fileReads = @ \cup {[text |-> text, cur |-> currentMapId,
                                                        n |-> viewer.readsStarted + 1]},
                                 !.readsStarted = @ + 1],
                         "handleFileSelected")

\* reader.onload of a read in flight: hands the text to loadNewMapData.
FileReaderOnload ==
    \E read \in viewer.fileReads :
        MapdrawBecomes(loadNewMapData(St, read.text),
                       [viewer EXCEPT !.fileReads = @ \ {read}, !.readApplied = read.n],
                       "reader.onload")

\* A confirmation that stores the URL as it was typed.
handleConfirmChangeRootImage_StoresUntrimmed(s, newRootUrlInput) ==
    IF ~Truthy(s.root) \/ Trim(newRootUrlInput) = "" THEN s
    ELSE setEditAction(loadNewMapData(s, JMap(<<MapEntry(s.root, newRootUrlInput, <<>>)>>)),
                       "none")

\* Mapdraw.handleConfirmChangeRootImage: a valid URL replaces the document by
\* one node, the instance's root map with the new image and no hotspots.
handleConfirmChangeRootImage(s, newRootUrlInput) ==
    LET trimmedUrl == Trim(newRootUrlInput)
    IN  IF ~Truthy(s.root) \/ trimmedUrl = ""
           \/ (~IsParseableUrl(trimmedUrl) /\ ~StartsWithSlash(trimmedUrl))
        THEN s
        ELSE setEditAction(loadNewMapData(s, JMap(<<MapEntry(s.root, trimmedUrl, <<>>)>>)),
                           "none")

\* The "change root image" control, shown outside edit mode on the root map:
\* Mapdraw.handleInitiateChangeRootImage.
InitiateChangeRootImage ==
    /\ ~viewer.isEditMode /\ editAction # "changing_root_image"
    /\ currentMapId # Null /\ currentMapId = initialRootMapId
    /\ MapdrawBecomes(setEditAction(St, "changing_root_image"),
                      [viewer EXCEPT !.hotspotToDeleteId = Null],
                      "handleInitiateChangeRootImage")

ConfirmChangeRootImage(urls) ==
    /\ editAction = "changing_root_image"
    /\ \E url \in urls :
          MapdrawBecomes(handleConfirmChangeRootImage(St, url), viewer,
                         "handleConfirmChangeRootImage")

\* Mapdraw.handleCancelChangeRootImage.
CancelChangeRootImage ==
    /\ editAction = "changing_root_image"
    /\ MapdrawBecomes(setEditAction(St, "none"), viewer, "handleCancelChangeRootImage")

\* A document with a map link and a URL link on its root.
DocMixed ==
    JMap(<<MapEntry("A", "/img/a.png", <<MapHs("h1", "B"), UrlHs("h2")>>),
           MapEntry("B", "/img/b.png", <<>>)>>)

InitEdit == HookInit({DocMixed}, {"A"})

NextEdit ==
    \/ ToggleEditMode
    \/ ChooseEditAction({"selecting_for_deletion", "adding"})
    \/ ChooseSelectingForEdit
    \/ SelectHotspotForDeletion
    \/ ConfirmDeletion
    \/ SelectHotspotForEditing
    \/ HandleModalSubmitEditing({"", "T"}, {"", "/img/new.png"}, {"https://host/new.png"})
    \/ HandleModalCancel
    \/ HandleFileSelected({DocScenario, DocChain})
    \/ FileReaderOnload
    \/ ClickHotspot
    \/ BackControl
    \/ InitiateChangeRootImage
    \/ ConfirmChangeRootImage({"   ", "new.png", " /img/new.png "})
    \/ CancelChangeRootImage

SpecEdit == InitEdit /\ [][NextEdit]_vars

\* ----------------------------------- SpecView: the view of each map
\* The size of the container the maps are shown in.
containerDims == [width |-> Num(1920), height |-> Num(1080)]

\* imageChangeParams: the transform that fits the canvas to the container;
\* rectCanva is the canvas rectangle on the page.
imageChangeParams(container, rectCanva) ==
    IF RLt(canvasWidth, container.width) /\ RLt(canvasHeight, container.height)
    THEN [scale |-> Num(1),
          x |-> IF RLt(rectCanva.left, Num(0)) THEN RDiv(RSub(Num(0), rectCanva.left), Num(2))
                ELSE Num(0),
          y |-> IF RLt(rectCanva.top, Num(0)) THEN RDiv(RSub(Num(0), rectCanva.top), Num(2))
                ELSE Num(0)]
    ELSE LET percWidth == RDiv(container.width, canvasWidth)
             percHeight == RDiv(container.height, canvasHeight)
             scale == IF RLt(percWidth, percHeight) THEN percWidth ELSE percHeight
         IN  [scale |-> scale,
              x |-> RAdd(RDiv(RSub(canvasWidth, container.width), Num(2)),
                         RDiv(RSub(container.width, RMul(canvasWidth, scale)), Num(2))),
              y |-> RAdd(RDiv(RSub(canvasHeight, container.height), Num(2)),
                         RDiv(RSub(container.height, RMul(canvasHeight, scale)), Num(2)))]

FitTransform == imageChangeParams(containerDims, [left |-> Num(-960), top |-> Num(-540)])

\* The cache entry of the current map, handed to the viewer as
\* initialTransformForCurrentMap: <<transform>>, or <<>> when there is none.
initialTransformForCurrentMap(s) ==
    IF s.cur # Null /\ s.cur \in DOMAIN s.xf THEN <<s.xf[s.cur]>> ELSE <<>>

\* The viewer's onTransformChange: saves the transform under the current map.
onTransformChange(s, newTransform) ==
    IF s.cur = Null THEN s ELSE updateMapViewTransform(s, s.cur, newTransform)

\* applyInitialState of handleImageLoad, with the initial transform the
\* handler had when the image loaded.
applyInitialState(v, initial) ==
    [v EXCEPT !.transformCurrentData = IF initial # <<>> THEN initial[1] ELSE FitTransform,
              !.isImageLoading = FALSE, !.isReadyToSaveChanges = TRUE]

\* The effect on [imageUrl, currentMapId], run after a render that changed
\* either.
ImageChangeEffect(v, before, after) ==
    IF after.cur # before.cur \/ after.disp # before.disp
    THEN [v EXCEPT !.isImageLoading = TRUE, !.isReadyToSaveChanges = FALSE,
                   !.imagePending = TRUE]
    ELSE v

ViewClickHotspot ==
    \E h \in {g \in ShownHotspots : Get(g, "linkType") = "map"} :
        /\ Len(navigationHistory) < MaxHistory
        /\ LET t == navigateToChild(St, Get(h, "link_to_map_id"))
           IN  MapdrawBecomes(t, ImageChangeEffect(viewer, St, t), "navigateToChild")

ViewBack ==
    /\ navigationHistory # <<>>
    /\ LET t == navigateBack(St)
       IN  MapdrawBecomes(t, ImageChangeEffect(viewer, St, t), "navigateBack")

\* The load event of the image: handleImageLoad starts the timer.
HandleImageLoad ==
    /\ viewer.imagePending
    /\ MapdrawBecomes(St, [viewer EXCEPT
                              !.imagePending = FALSE,
                              !.fitTimers = @ \cup {[map |-> currentMapId,
                                                     initial |-> initialTransformForCurrentMap(St)]}],
                      "handleImageLoad")

\* A timer started by handleImageLoad runs.
ApplyInitialState ==
    \E timer \in viewer.fitTimers :
        MapdrawBecomes(St, applyInitialState([viewer EXCEPT !.fitTimers = @ \ {timer}],
                                             timer.initial),
                       "applyInitialState")

\* The user pans or zooms: handleTransformed, which saves when the view is
\* ready.
ViewTransformed ==
    \E t \in ViewTransforms :
        MapdrawBecomes(IF viewer.isReadyToSaveChanges /\ ~viewer.isImageLoading
                       THEN onTransformChange(St, t) ELSE St,
                       handleTransformed(viewer, t), "handleTransformed")

InitView == HookInit({DocScenario}, {"A"})

NextView ==
    \/ ViewClickHotspot
    \/ ViewBack
    \/ HandleImageLoad
    \/ ApplyInitialState
    \/ ViewTransformed

SpecView == InitView /\ [][NextView]_vars

\* --------------------------------------- SpecBack: going back to the root
\* The user navigates and edits as in Spec and, from the first Back on, only
\* presses Back, again and again.
NextBack ==
    \/ (lastOp.op # "navigateBack" /\ Next)
    \/ (lastOp.op = "navigateBack" /\ NavigateBack)

SpecBack == Init /\ [][NextBack]_vars /\ WF_vars(NavigateBack)

\* ===================================================================
\* Properties
\* ===================================================================
AllHotspots(g) ==
    {g[m].hotspots[i] : <<m, i>> \in {<<m, i>> \in (DOMAIN g) \X (1..4) : i <= Len(g[m].hotspots)}}

\* C1: from a state with currentMapId = a and history H, a successful
\* navigateToChild(b) gives currentMapId = b and history H followed by a, and
\* a following navigateBack gives currentMapId = a and history H again.
C1_StackDiscipline ==
    \A b \in NavTargets :
        LET s1 == navigateToChild(St, b)
            s2 == navigateBack(s1)
        IN  Outcome(St, s1) = "ok" =>
              /\ s1.cur = b
              /\ s1.hist = Append(navigationHistory, currentMapId)
              /\ s2.cur = currentMapId
              /\ s2.hist = navigationHistory

\* The positions <<map id, index>> of the map-type hotspots that link to X.
MapLinksTo(g, X) ==
    {<<m, i>> \in (DOMAIN g) \X (1..4) :
        /\ i <= Len(g[m].hotspots)
        /\ Get(g[m].hotspots[i], "linkType") = "map"
        /\ Get(g[m].hotspots[i], "link_to_map_id") = X}

\* C2: deleteHotspot of the only map-type hotspot of the graph that links to X
\* removes X from the graph; deleteHotspot of one of two or more hotspots that
\* link to X leaves X in the graph.
C2_OrphanCleanup ==
    \A m \in DOMAIN managedMapData :
        \A i \in 1..Len(managedMapData[m].hotspots) :
            LET hs == managedMapData[m].hotspots[i]
                X == Get(hs, "link_to_map_id")
                t == deleteHotspot(St, m, Get(hs, "id"))
                n == Cardinality(MapLinksTo(managedMapData, X))
            IN  (Get(hs, "linkType") = "map" /\ X \in DOMAIN managedMapData) =>
                  /\ (n = 1 => X \notin DOMAIN t.data)
                  /\ (n >= 2 => X \in DOMAIN t.data)

\* C3: addHotspotAndMapDefinition with a map-type hotspot whose link_to_map_id
\* is already a key of the graph (and an image URL for the map to create)
\* fails and leaves the graph as it was: no hotspot appended, no node changed.
C3_DuplicateIdRejected ==
    \A targetMapId \in DOMAIN managedMapData, newHotspot \in NewHotspots :
        LET t == addHotspotAndMapDefinition(St, targetMapId, newHotspot, "/img/new.png")
        IN  (/\ Get(newHotspot, "linkType") = "map"
             /\ Get(newHotspot, "link_to_map_id") \in DOMAIN managedMapData) =>
              /\ SameGraph(t.data, managedMapData)
              /\ t.err # Null

\* C4: after loadNewMapData accepts a document, the graph is the normalized
\* document, currentMapId is its first key (in own-key order), history is
\* empty, editAction is 'none', error is null and the view-transform cache is
\* empty, whatever the state was before.
C4_LoadSuccessResets ==
    \A input \in LoadInputs :
        LET n == normalizeMapData(input)
            t == loadNewMapData(St, input)
        IN  LoadOutcome(input).ok =>
              /\ t.data = n.data
              /\ t.cur = n.keys[1]
              /\ t.hist = <<>>
              /\ t.edit = "none"
              /\ t.err = Null
              /\ t.xf = NoTransforms

\* A document was loaded over a state that had history, an edit action or a
\* cached transform, and the hook now shows the document's first key.
C4_Witness ==
    /\ lastOp = [op |-> "loadNewMapData", out |-> "ok"]
    /\ currentMapId = "B"
    /\ initialRootMapId = "A"
    /\ navigationHistory = <<>>
    /\ mapViewTransforms = NoTransforms

\* C5: when loadNewMapData rejects its input, the graph, currentMapId,
\* history, editAction and view-transform cache are unchanged and error is a
\* non-null message.
C5_LoadFailureKeepsState ==
    \A input \in LoadInputs :
        LET t == loadNewMapData(St, input)
        IN  ~LoadOutcome(input).ok =>
              /\ t.data = managedMapData
              /\ t.cur = currentMapId
              /\ t.hist = navigationHistory
              /\ t.edit = editAction
              /\ t.xf = mapViewTransforms
              /\ t.err # Null

\* A load was rejected in a state with history, an edit action and a cached
\* transform, all of which are still there.
C5_Witness ==
    /\ lastOp = [op |-> "loadNewMapData", out |-> "error"]
    /\ error # Null
    /\ navigationHistory # <<>>
    /\ editAction = "adding"
    /\ mapViewTransforms # NoTransforms

\* The states the four incremental mutations lead to, effects included.
StoreResults(s) ==
    {addHotspotAndMapDefinition(s, m, h, u) :
        m \in StoreTargets \cup {"B"}, h \in NewHotspots, u \in NewMapImageUrls}
    \cup {updateHotspotDetails(s, m, id, d) :
        m \in StoreTargets \cup {"B"}, id \in {"h1", "n1"}, d \in NewDetails}
    \cup {deleteHotspot(s, m, id) : m \in StoreTargets \cup {"B"}, id \in {"h1", "n1", "n2"}}
    \cup {updateMapImageUrl(s, m, u) : m \in StoreTargets \cup {"B"}, u \in ImageUrlInputs}

\* C6: after any addHotspotAndMapDefinition, updateHotspotDetails,
\* deleteHotspot or updateMapImageUrl and the effects it triggers,
\* currentMapId and history are what they were before the call, as long as
\* the current map still exists in the graph.
C6_MutationsKeepNavigation ==
    \A t \in StoreResults(St) :
        (currentMapId # Null /\ currentMapId \in DOMAIN t.data) =>
            /\ t.cur = currentMapId
            /\ t.hist = navigationHistory

\* A hotspot was added while the view was on B, one step away from the root.
C6_Witness ==
    /\ lastOp = [op |-> "addHotspotAndMapDefinition", out |-> "ok"]
    /\ currentMapId = "B"
    /\ navigationHistory = <<"A">>
    /\ initialRootMapId = "A"

\* C7: for every graph reachable from a loaded document by the store
\* operations, serializing it and normalizing the result gives a graph equal
\* to the original: same map ids, same imageUrl per map, same hotspots in the
\* same order with the same fields.
C7_DocumentRoundTrip ==
    SameGraph(normalizeMapData(StringifyGraph(managedMapData)).data, managedMapData)

\* A hotspot carries exactly the link payload of its linkType.
PayloadMatches(hs) ==
    \/ /\ Get(hs, "linkType") = "map"
       /\ Truthy(Get(hs, "link_to_map_id"))
       /\ Get(hs, "linkedUrl") = Undefined
    \/ /\ Get(hs, "linkType") = "url"
       /\ Truthy(Get(hs, "linkedUrl"))
       /\ Get(hs, "link_to_map_id") = Undefined

\* C10: in every graph reachable by document loads, addHotspotAndMapDefinition,
\* updateHotspotDetails and deleteHotspot, every hotspot carries exactly one
\* link payload, the one of its linkType; an update that switches linkType
\* leaves no field of the previous variant.
C10_LinkPayload ==
    \A hs \in AllHotspots(managedMapData) : PayloadMatches(hs)

\* C8: for every drawn screen rectangle that produces a hotspot and every
\* view transform, the emitted percentage rectangle has x + width <= 100,
\* y + height <= 100, width >= 0.1 and height >= 0.1, with x and y in [0, 100].
C8_Clamping ==
    viewer.newHotspotRect # <<>> =>
        LET r == viewer.newHotspotRect[1]
        IN  /\ RLe(RAdd(r.x, r.width), Num(100))
            /\ RLe(RAdd(r.y, r.height), Num(100))
            /\ RLe(Rat(1, 10), r.width) /\ RLe(Rat(1, 10), r.height)
            /\ RLe(Num(0), r.x) /\ RLe(r.x, Num(100))
            /\ RLe(Num(0), r.y) /\ RLe(r.y, Num(100))

\* The emitted rectangle as it shows on screen under the transform it was
\* drawn with (the transform cannot change while the modal is open).
RenderedBack == screenRect(viewer.newHotspotRect[1], viewer.transformCurrentData)

MinSideOnScreen(canvas) ==
    RMul(viewer.transformCurrentData.scale, RMul(Rat(1, 1000), canvas))

OnlyErrorSet(t) ==
    /\ t.data = managedMapData
    /\ t.cur = currentMapId
    /\ t.hist = navigationHistory
    /\ t.err # Null

HotspotIdsOn(g, m) == {Get(g[m].hotspots[i], "id") : i \in 1..Len(g[m].hotspots)}
AnyHotspotIds == HotspotIds \cup {"n1", "n2"}
AnyImageUrls == ImageUrlInputs \cup {"https://host/new.png", "/img/new.png"}

\* C11: addHotspotAndMapDefinition, updateHotspotDetails, deleteHotspot or
\* updateMapImageUrl naming a map id that is not in the graph, and
\* updateHotspotDetails naming a hotspot id that is not on its target map,
\* leave the graph, currentMapId and the history unchanged and set a
\* non-null error.
C11_NotFoundKeepsState ==
    /\ \A m \in TargetMapIds \ DOMAIN managedMapData :
          /\ \A h \in NewHotspots, u \in NewMapImageUrls :
                OnlyErrorSet(addHotspotAndMapDefinition(St, m, h, u))
          /\ \A id \in AnyHotspotIds, d \in NewDetails :
                OnlyErrorSet(updateHotspotDetails(St, m, id, d))
          /\ \A id \in AnyHotspotIds : OnlyErrorSet(deleteHotspot(St, m, id))
          /\ \A u \in AnyImageUrls : OnlyErrorSet(updateMapImageUrl(St, m, u))
    /\ \A m \in DOMAIN managedMapData :
          \A id \in AnyHotspotIds \ HotspotIdsOn(managedMapData, m), d \in NewDetails :
              OnlyErrorSet(updateHotspotDetails(St, m, id, d))

\* An update of a hotspot that is no longer on map A, made while map B is shown.
C11_Witness ==
    /\ lastOp = [op |-> "updateHotspotDetails", out |-> "error"]
    /\ error = "Cannot update hotspot: Hotspot not found in map"
    /\ "A" \in DOMAIN managedMapData
    /\ navigationHistory # <<>>

\* C12: navigateToChild with a target that holds a path-like separator or is
\* not a key of the graph leaves currentMapId and the history unchanged and
\* sets a non-null error.
C12_NavigateToChildFailure ==
    \A childMapId \in NavTargets :
        LET t == navigateToChild(St, childMapId)
        IN  (HasPathSeparator(childMapId) \/ childMapId \notin DOMAIN managedMapData) =>
              /\ t.cur = currentMapId
              /\ t.hist = navigationHistory
              /\ t.err # Null

\* C13: navigateBack with an empty history changes nothing (currentMapId,
\* history and error stay as they are); navigateBack whose top history entry
\* is not a key of the graph sets the "history corrupted" error and leaves
\* currentMapId and the history unchanged.
C13_NavigateBackEdges ==
    LET t == navigateBack(St)
    IN  /\ navigationHistory = <<>> => t = St
        /\ (/\ navigationHistory # <<>>
            /\ navigationHistory[Len(navigationHistory)] \notin DOMAIN managedMapData) =>
              /\ t.err = "Error navigating back: History might be corrupted"
              /\ t.cur = currentMapId
              /\ t.hist = navigationHistory
              /\ t.data = managedMapData

\* A back step was refused because the map on top of the history is gone.
C13_Witness ==
    /\ lastOp = [op |-> "navigateBack", out |-> "error"]
    /\ error = "Error navigating back: History might be corrupted"
    /\ navigationHistory # <<>>
    /\ navigationHistory[Len(navigationHistory)] \notin DOMAIN managedMapData

\* C14: after navigateToChild(b) from map a and a deleteHotspot that removes
\* b as an orphan while a stays in the graph, navigateBack succeeds:
\* currentMapId is a again, the history has lost its last entry, there is no
\* error, and the display data is a's node with its remaining hotspots.
C14_BackAfterOrphanCleanup ==
    \A b \in MapIds, m \in TargetMapIds, id \in HotspotIds :
        LET a  == currentMapId
            s1 == navigateToChild(St, b)
            s2 == deleteHotspot(s1, m, id)
            s3 == navigateBack(s2)
        IN  (/\ a \in DOMAIN managedMapData
             /\ s1.cur = b /\ s1.hist = Append(navigationHistory, a)
             /\ b \in DOMAIN s1.data /\ b \notin DOMAIN s2.data
             /\ a \in DOMAIN s2.data) =>
              /\ s3.cur = a
              /\ s3.hist = navigationHistory
              /\ s3.err = Null
              /\ s3.disp = DisplayOf(s2.data[a])
              /\ s3.data = s2.data

\* Back on A, with nothing left on it, after B was removed from the graph.
C14_Witness ==
    /\ lastOp = [op |-> "navigateBack", out |-> "ok"]
    /\ currentMapId = "A"
    /\ "B" \notin DOMAIN managedMapData
    /\ navigationHistory = <<>>
    /\ error = Null
    /\ currentMapDisplayData = DisplayOf([imageUrl |-> "/img/a.png", hotspots |-> <<>>])

\* Two map definitions with the same image and the same hotspots, where a
\* property holding undefined counts as an absent one.
SameMapDef(d1, d2) ==
    /\ d1.imageUrl = d2.imageUrl
    /\ Len(d1.hotspots) = Len(d2.hotspots)
    /\ \A i \in 1..Len(d1.hotspots) : SameHotspot(d1.hotspots[i], d2.hotspots[i])

\* C15: a successful addHotspotAndMapDefinition appends the hotspot at the
\* end of the target map's list; if its linkType is "map" the graph gains
\* exactly one node, keyed by link_to_map_id, with imageUrl = newMapImageUrl
\* and no hotspots; if its linkType is "url" the set of map ids is unchanged
\* whatever newMapImageUrl is; every other node is unchanged.
C15_NodeCreationByLinkType ==
    \A m \in DOMAIN managedMapData, h \in NewHotspots, u \in NewMapImageUrls :
        LET r == addHotspotUpdater(managedMapData, m, h, u)
            t == addHotspotAndMapDefinition(St, m, h, u)
            target == Get(h, "link_to_map_id")
        IN  (r.changed /\ r.err = NoErr) =>
              /\ m \in DOMAIN t.data
              /\ SameMapDef(t.data[m], [managedMapData[m] EXCEPT !.hotspots = Append(@, h)])
              /\ \A k \in DOMAIN managedMapData \ {m} :
                    k \in DOMAIN t.data /\ SameMapDef(t.data[k], managedMapData[k])
              /\ Get(h, "linkType") = "map" =>
                    /\ target \notin DOMAIN managedMapData
                    /\ DOMAIN t.data = DOMAIN managedMapData \cup {target}
                    /\ t.data[target] = [imageUrl |-> u, hotspots |-> <<>>]
              /\ Get(h, "linkType") = "url" => DOMAIN t.data = DOMAIN managedMapData

\* C16: deleteHotspot with a hotspot id that is not on its (existing) target
\* map leaves the graph unchanged and sets no error; applying the same
\* deleteHotspot twice gives the same graph as applying it once.
C16_IdempotentDelete ==
    \A m \in TargetMapIds, id \in AnyHotspotIds :
        LET t1 == deleteHotspot(St, m, id)
            t2 == deleteHotspot(t1, m, id)
        IN  /\ (m \in DOMAIN managedMapData /\ id \notin HotspotIdsOn(managedMapData, m)) =>
                  t1.data = managedMapData /\ t1.err = Null
            /\ t2.data = t1.data

\* The same hotspot of A was deleted a second time.
C16_Witness ==
    /\ lastOp = [op |-> "deleteHotspot", out |-> "unchanged"]
    /\ error = Null
    /\ "A" \in DOMAIN managedMapData
    /\ "h1" \notin HotspotIdsOn(managedMapData, "A")

\* C17: one deleteHotspot removes at most one map node, and only the link
\* target of the deleted hotspot; on the chain A -> B -> C, deleting A's
\* hotspot to B removes B and keeps C.
C17_SingleLevelCleanup ==
    /\ \A m \in TargetMapIds, id \in AnyHotspotIds :
          LET t == deleteHotspot(St, m, id)
              removed == DOMAIN managedMapData \ DOMAIN t.data
          IN  /\ DOMAIN t.data \subseteq DOMAIN managedMapData
              /\ Cardinality(removed) <= 1
              /\ \A X \in removed :
                    \E i \in 1..Len(managedMapData[m].hotspots) :
                        LET hs == managedMapData[m].hotspots[i]
                        IN  /\ Get(hs, "id") = id
                            /\ Get(hs, "linkType") = "map"
                            /\ Get(hs, "link_to_map_id") = X
    /\ SameGraph(managedMapData, normalizeMapData(DocChain).data) =>
          DOMAIN deleteHotspot(St, "A", "h1").data = {"A", "C"}

\* B was removed from the chain; C, which only B linked to, is still there.
C17_Witness ==
    /\ lastOp = [op |-> "deleteHotspot", out |-> "ok"]
    /\ DOMAIN managedMapData = {"A", "C"}
    /\ MapLinksTo(managedMapData, "C") = {}

\* What updateMapImageUrl accepts as an image URL.
AcceptedImageUrl(u) ==
    Truthy(Trim(u)) /\ (IsParseableUrl(Trim(u)) \/ StartsWithSlash(Trim(u)))

\* C18: updateMapImageUrl with an unknown map id, or a URL that is empty
\* after trimming, or one that neither parses as a URL nor starts with "/",
\* leaves the graph unchanged and sets the error; otherwise only that node's
\* imageUrl changes, to the trimmed value, and its hotspots and all other
\* nodes are unchanged.
C18_ImageUrlValidation ==
    \A m \in TargetMapIds, u \in AnyImageUrls :
        LET t == updateMapImageUrl(St, m, u)
        IN  IF m \notin DOMAIN managedMapData \/ ~AcceptedImageUrl(u)
            THEN t.data = managedMapData /\ t.err # Null
            ELSE /\ DOMAIN t.data = DOMAIN managedMapData
                 /\ t.data[m].imageUrl = Trim(u)
                 /\ SameMapDef(t.data[m], [managedMapData[m] EXCEPT !.imageUrl = Trim(u)])
                 /\ \A k \in DOMAIN managedMapData \ {m} :
                       SameMapDef(t.data[k], managedMapData[k])

\* B carries the trimmed form of the URL that was typed with blanks around it.
C18_Witness ==
    /\ lastOp = [op |-> "updateMapImageUrl", out |-> "ok"]
    /\ "B" \in DOMAIN managedMapData
    /\ managedMapData["B"].imageUrl = "/img/new.png"
    /\ error = Null

\* C19: whenever the root id supplied to the component changes, and on the
\* first load, the history becomes empty and currentMapId becomes that root
\* if it is a key of the graph; if it is not, currentMapId is unset, the
\* display data is absent, the history is empty and the error is non-null.
RootLoaded(t, rootMapId) ==
    IF rootMapId \in DOMAIN t.data
    THEN t.cur = rootMapId /\ t.hist = <<>>
    ELSE t.cur = Null /\ t.disp = NoDisplay /\ t.hist = <<>> /\ t.err # Null

C19_NewRootLoad ==
    /\ \A rootMapId \in TargetMapIds \ {initialRootMapId} :
          LET t == changeRootProp(St, rootMapId)
          IN  t.root = rootMapId /\ t.data = managedMapData /\ RootLoaded(t, rootMapId)
    /\ lastOp.op = "mount" => RootLoaded(St, initialRootMapId)

\* The host replaced the root id by one the graph does not have.
C19_Witness ==
    /\ lastOp = [op |-> "changeRootProp", out |-> "error"]
    /\ initialRootMapId = "Z"
    /\ currentMapId = Null
    /\ currentMapDisplayData = NoDisplay
    /\ navigationHistory = <<>>
    /\ error = "Error loading initial map: Map data not found"

\* C20: if a graph mutation removes the node keyed by currentMapId, then
\* once the effects have run the display data is absent and the error is
\* non-null.
C20_CurrentMapDeleted ==
    \A m \in TargetMapIds, id \in AnyHotspotIds :
        LET t == deleteHotspot(St, m, id)
        IN  (currentMapId \in DOMAIN managedMapData /\ currentMapId \notin DOMAIN t.data) =>
              t.disp = NoDisplay /\ t.err # Null

\* C21: every operation that fails for an expected condition (bad navigation
\* id, navigation with no current map, unknown map or hotspot id, duplicate
\* map id on add, invalid image URL, malformed document, missing history
\* parent) leaves a non-null error once its effects have settled; deleting a
\* hotspot id that is already absent is the only failure that leaves it null.
C21_NoSwallowedErrors ==
    /\ \A childMapId \in NavTargets :
          (\/ HasPathSeparator(childMapId)
           \/ childMapId \notin DOMAIN managedMapData
           \/ currentMapId = Null) =>
              navigateToChild(St, childMapId).err # Null
    /\ (/\ navigationHistory # <<>>
        /\ navigationHistory[Len(navigationHistory)] \notin DOMAIN managedMapData) =>
          navigateBack(St).err # Null
    /\ \A m \in TargetMapIds, h \in NewHotspots, u \in NewMapImageUrls :
          (\/ m \notin DOMAIN managedMapData
           \/ /\ Get(h, "linkType") = "map" /\ Truthy(u)
              /\ Get(h, "link_to_map_id") \in DOMAIN managedMapData) =>
              addHotspotAndMapDefinition(St, m, h, u).err # Null
    /\ \A m \in TargetMapIds, id \in AnyHotspotIds, d \in NewDetails :
          (m \notin DOMAIN managedMapData \/ id \notin HotspotIdsOn(managedMapData, m)) =>
              updateHotspotDetails(St, m, id, d).err # Null
    /\ \A m \in TargetMapIds \ DOMAIN managedMapData, id \in AnyHotspotIds :
          deleteHotspot(St, m, id).err # Null
    /\ \A m \in TargetMapIds, u \in AnyImageUrls :
          (m \notin DOMAIN managedMapData \/ ~AcceptedImageUrl(u)) =>
              updateMapImageUrl(St, m, u).err # Null
    /\ \A input \in InvalidInputs : loadNewMapData(St, input).err # Null

\* Parsed top-level values that are not a non-empty keyed mapping of map
\* definitions: null, a number, strings, arrays, the empty object.
NotAMapping ==
    {JNull, JNum, JStr(0), JStr(2), JArr(<<>>), JArr(<<JNull>>), JArr(<<JNum>>),
     JArr(<<JObj([imageUrl |-> "/img/a.png"])>>), JMap(<<>>)}

\* C22: loading succeeds only for a non-empty keyed mapping of map ids to
\* map definitions; every other parsed top-level value (null, number, string,
\* array, empty object) is a hard failure that yields no graph.
C22_TopLevelCheck ==
    /\ \A input \in NotAMapping :
          LET t == loadNewMapData(St, input)
          IN  ~LoadOutcome(input).ok /\ t.data = managedMapData /\ t.err # Null
    /\ \A input \in LoadInputs :
          LoadOutcome(input).ok => input.t = "map" /\ Len(input.entries) > 0

\* The hotspots of map A after loading the document {A: [hs], B: []}.
LoadedHotspots(hs) == loadNewMapData(St, ImportedDoc(hs)).data["A"].hotspots

\* C23: for every input hotspot, an absent linkType is inferred as "map" when
\* link_to_map_id is present, else as "url" when linkedUrl is present, else
\* the hotspot is dropped without failing the load; a hotspot normalized as
\* "map" keeps only link_to_map_id as payload, one normalized as "url" keeps
\* linkedUrl and gets urlTarget "_blank" when urlTarget is missing.
C23_LinkHandling ==
    \A hs \in ImportedHotspots :
        LET n == LoadedHotspots(hs)
        IN  /\ LoadOutcome(ImportedDoc(hs)).ok
            /\ Len(n) <= 1
            /\ "linkType" \notin DOMAIN hs =>
                  IF "link_to_map_id" \in DOMAIN hs THEN Len(n) = 1 /\ n[1].linkType = "map"
                  ELSE IF "linkedUrl" \in DOMAIN hs THEN Len(n) = 1 /\ n[1].linkType = "url"
                  ELSE n = <<>>
            /\ "linkType" \in DOMAIN hs => Len(n) = 1 /\ n[1].linkType = hs.linkType
            /\ (Len(n) = 1 /\ n[1].linkType = "map") =>
                  /\ n[1].link_to_map_id = Get(hs, "link_to_map_id")
                  /\ {"linkedUrl", "urlTarget"} \cap DOMAIN n[1] = {}
            /\ (Len(n) = 1 /\ n[1].linkType = "url") =>
                  /\ n[1].linkedUrl = Get(hs, "linkedUrl")
                  /\ n[1].urlTarget = IF "urlTarget" \in DOMAIN hs THEN hs.urlTarget ELSE "_blank"
                  /\ "link_to_map_id" \notin DOMAIN n[1]

\* A document was loaded whose hotspot came out as a url link with the
\* default target.
C23_Witness ==
    /\ lastOp = [op |-> "loadNewMapData", out |-> "ok"]
    /\ Len(managedMapData["A"].hotspots) = 1
    /\ Get(managedMapData["A"].hotspots[1], "linkType") = "url"
    /\ Get(managedMapData["A"].hotspots[1], "urlTarget") = "_blank"
    /\ Get(managedMapData["A"].hotspots[1], "linkedUrl") = "https://e.x/"

\* C24: a hotspot of the input that lacks id, x, y, width or height does not
\* appear in the normalized graph.
C24_IncompleteHotspotsDropped ==
    \A hs \in ImportedHotspots :
        {"id", "x", "y", "width", "height"} \ DOMAIN hs # {} => LoadedHotspots(hs) = <<>>


\* C25: toggling edit mode off, from any edit action, leaves editAction =
\* 'none', no hotspot selected for deletion and no hotspot selected for
\* editing.
C25_LeavingEditMode ==
    viewer.isEditMode =>
        /\ \A action \in EditActions : toggleEditModeAction(viewer, action) = "none"
        /\ toggleEditMode(viewer).isEditMode = FALSE
        /\ toggleEditMode(viewer).hotspotToDeleteId = Null
        /\ toggleEditMode(viewer).hotspotToEditId = Null

\* Edit mode is on with a hotspot selected for deletion: the exit control is
\* about to clear a selection.
C25_Witness ==
    /\ viewer.isEditMode /\ ~viewer.isModalOpen
    /\ editAction = "selecting_for_deletion"
    /\ viewer.hotspotToDeleteId = "h1"

\* C26: whenever editAction is 'editing_hotspot' a hotspot id is recorded as
\* the subject; leaving the editing by cancel or by commit clears the subject
\* and gives 'selecting_for_edit' (edit mode on) or 'none'; the subject is
\* never set while editAction is not 'editing_hotspot'.
C26_EditSubjectConsistency ==
    /\ editAction = "editing_hotspot" => viewer.hotspotToEditId # Null
    /\ editAction # "editing_hotspot" => viewer.hotspotToEditId = Null
    /\ editAction = "editing_hotspot" =>
          /\ handleModalCancel(viewer, editAction).hotspotToEditId = Null
          /\ handleModalCancelAction(viewer, editAction) =
                 (IF viewer.isEditMode THEN "selecting_for_edit" ELSE "none")
          /\ \A title \in {"", "T"}, mapUrl \in {"", "/img/new.png", "new.png"},
                linkedUrl \in {"", "https://host/new.png"} :
                LET r == handleModalSubmitEditing(St, viewer, title, mapUrl, linkedUrl)
                IN  r.s.edit # "editing_hotspot" =>
                        /\ r.v.hotspotToEditId = Null
                        /\ r.s.edit \in {"selecting_for_edit", "none"}


\* Where the drags of the gestures below end: far from, near and at the press.
DragEnds ==
    {[x |-> Num(2000), y |-> Num(1000)], [x |-> Num(102), y |-> Num(60)],
     [x |-> Num(100), y |-> Num(50)]}

\* A press at p, a drag to q and a release, under the edit action given.
Gesture(v, action, p, q) ==
    handleMouseUp(handleMouseMove(handleMouseDown(v, action, p), q), action)

\* C27: a press/drag/release gesture starts a drawing and can produce a
\* pending hotspot rectangle only when edit mode is on and editAction is
\* 'adding'; in every other state the gesture starts no drawing and leaves
\* the pending rectangle and the modal as they were (the gesture handlers
\* have no access to the graph).
C27_OnlyAddingDraws ==
    \A action \in (EditActions \ {"adding"}) \cup {editAction}, p \in Pointers, q \in DragEnds :
        ~(viewer.isEditMode /\ action = "adding") =>
            LET after == Gesture(viewer, action, p, q)
            IN  /\ handleMouseDown(viewer, action, p) = viewer
                /\ after.newHotspotRect = viewer.newHotspotRect
                /\ after.isModalOpen = viewer.isModalOpen
                /\ ~after.isDrawing

\* In the adding state a gesture has produced a pending rectangle, and the
\* modal was then cancelled and edit mode left: the same gesture is now
\* ignored.
C27_Witness ==
    /\ \E p \in Pointers, q \in DragEnds :
          /\ Gesture([viewer EXCEPT !.isEditMode = TRUE], "adding", p, q).newHotspotRect # <<>>
          /\ Gesture(viewer, editAction, p, q) = viewer
    /\ ~viewer.isEditMode
    /\ lastOp.op = "toggleEditMode"
    /\ viewer.transformCurrentData.scale = Num(2)


\* C28: the completion of a file read is ignored when a read started later
\* has already been applied or when the current map is no longer the one the
\* read was started on: it then leaves the hook's state as it is.
C28_StaleResultsIgnored ==
    [][\A read \in viewer.fileReads :
          (/\ read \notin viewer'.fileReads
           /\ (read.n < viewer.readApplied \/ read.cur # currentMapId))
          => UNCHANGED <<managedMapData, currentMapId, currentMapDisplayData,
                         navigationHistory, error, editAction, mapViewTransforms>>]_vars


LinksResolve(g) ==
    \A h \in AllHotspots(g) :
        Get(h, "linkType") = "map" => Get(h, "link_to_map_id") \in DOMAIN g

\* C30: if every map-type hotspot's link_to_map_id is a key of the graph
\* before an addHotspotAndMapDefinition, updateHotspotDetails or
\* deleteHotspot, the same holds after it, whether it succeeds or fails.
C30_MutationsKeepLinksResolved ==
    LinksResolve(managedMapData) =>
        /\ \A targetMapId \in TargetMapIds, newHotspot \in NewHotspots, url \in NewMapImageUrls :
              LinksResolve(addHotspotAndMapDefinition(St, targetMapId, newHotspot, url).data)
        /\ \A targetMapId \in TargetMapIds, id \in HotspotIds, d \in NewDetails :
              LinksResolve(updateHotspotDetails(St, targetMapId, id, d).data)
        /\ \A targetMapId \in TargetMapIds, id \in HotspotIds :
              LinksResolve(deleteHotspot(St, targetMapId, id).data)

\* The positions <<map id, index>> of the hotspots of a graph.
HotspotPositions(g) ==
    {<<m, i>> \in (DOMAIN g) \X (1..4) : i <= Len(g[m].hotspots)}

\* C31: in every reachable graph no two hotspots, on the same map or on
\* different maps, have the same id.
C31_HotspotIdsUnique ==
    \A p \in HotspotPositions(managedMapData), q \in HotspotPositions(managedMapData) :
        p # q => Get(managedMapData[p[1]].hotspots[p[2]], "id")
                   # Get(managedMapData[q[1]].hotspots[q[2]], "id")

\* The URLs typed into the root image field.
RootUrlInputs == {"", "   ", "new.png", " /img/new.png ", "/img/a.png", "https://host/new.png"}

\* C32: confirming a root image change with a valid URL leaves a graph with
\* exactly one node, keyed by the instance's root map id, with the new image
\* URL and no hotspots, currentMapId equal to that id, empty history and
\* editAction 'none'; confirming with an empty or invalid URL changes nothing
\* in the graph.
C32_RootImageChangeResets ==
    editAction = "changing_root_image" =>
        \A url \in RootUrlInputs :
            LET t == handleConfirmChangeRootImage(St, url)
            IN  IF AcceptedImageUrl(url)
                THEN /\ DOMAIN t.data = {initialRootMapId}
                     /\ t.data[initialRootMapId].imageUrl = Trim(url)
                     /\ t.data[initialRootMapId].hotspots = <<>>
                     /\ t.cur = initialRootMapId
                     /\ t.hist = <<>>
                     /\ t.edit = "none"
                ELSE t.data = managedMapData

\* The change was started on the root, the user then followed the link to B:
\* a confirmation now replaces a two-node graph while B is shown.
C32_Witness ==
    /\ editAction = "changing_root_image"
    /\ currentMapId = "B"
    /\ navigationHistory = <<"A">>
    /\ Cardinality(DOMAIN managedMapData) = 2

\* C33: in every settled state in which currentMapId is a key of the graph,
\* the published display data has the imageUrl and the hotspot list of the
\* node keyed by currentMapId.
C33_DisplayTracksGraph ==
    (currentMapId # Null /\ currentMapId \in DOMAIN managedMapData) =>
        currentMapDisplayData = DisplayOf(managedMapData[currentMapId])

\* A hotspot was added to the map being shown, and the display data has it.
C33_Witness ==
    /\ lastOp = [op |-> "addHotspotAndMapDefinition", out |-> "ok"]
    /\ currentMapId = "A"
    /\ currentMapDisplayData # NoDisplay
    /\ Len(currentMapDisplayData[1].hotspots) = 2

GestureIdle(v) == ~v.isDrawing /\ v.startCoords = <<>> /\ v.currentRect = <<>>

\* C34: after a gesture ends by release, pointer leave, touch end or touch
\* cancel (all handled by handleMouseUp / finalizeDrawing), and whenever the
\* drawing surface is gone because edit mode or the edit action changed, the
\* gesture state is idle: not drawing, no start point, no current rectangle.
C34_GestureResetsCleanly ==
    /\ GestureIdle(handleMouseUp(viewer, editAction))
    /\ ~OverlayShown(viewer, editAction) => GestureIdle(viewer)

\* The load of the current map's image has not completed: the image has not
\* fired its load event, or the timer that load started has not run yet.
LoadPending(v, cur) == v.imagePending \/ \E timer \in v.fitTimers : timer.map = cur

\* C35: a transform-changed event that fires while the load of the current
\* map's image has not completed is never written to the view-transform
\* cache.
C35_NoTransformLeak ==
    [][(lastOp'.op = "handleTransformed" /\ LoadPending(viewer, currentMapId))
          => mapViewTransforms' = mapViewTransforms]_vars

\* C36: every id on the history stack is a key of the graph.
C36_HistoryEntriesExist ==
    \A i \in 1..Len(navigationHistory) : navigationHistory[i] \in DOMAIN managedMapData

\* C37: while edit mode is on, a click on any shown hotspot leaves currentMapId
\* and the history as they are, the Back control is disabled, and no state is
\* entered by a navigation step with edit mode on.
C37_NoNavigationWhileEditing ==
    /\ viewer.isEditMode =>
          /\ ~isBackEnabled(St, viewer)
          /\ \A hotspotId \in ShownHotspotIds :
                LET r == handleHotspotInteraction(St, viewer, hotspotId).s
                IN  r.cur = currentMapId /\ r.hist = navigationHistory
    /\ lastOp.op \in {"navigateToChild", "navigateBack"} => ~viewer.isEditMode

\* Edit mode is on with no edit action chosen, on a map reached through a
\* link, with a map link to an existing map on display.
C37_Witness ==
    /\ viewer.isEditMode /\ editAction = "none" /\ canGoBack(St)
    /\ \E h \in ShownHotspots :
          Get(h, "linkType") = "map" /\ Get(h, "link_to_map_id") \in DOMAIN managedMapData

EditOnlyActions == {"adding", "selecting_for_deletion", "selecting_for_edit", "editing_hotspot"}

\* C38: when edit mode is off the edit action is 'none' or
\* 'changing_root_image'; 'adding', 'selecting_for_deletion',
\* 'selecting_for_edit' and 'editing_hotspot' occur only with edit mode on, and
\* leaving edit mode from any of them resets the action.
C38_EditFlagAndActionConsistent ==
    /\ ~viewer.isEditMode => editAction \in {"none", "changing_root_image"}
    /\ editAction \in EditOnlyActions => viewer.isEditMode
    /\ viewer.isEditMode => toggleEditModeAction(viewer, editAction) \notin EditOnlyActions

\* Edit mode was just left through the toggle.
C38_Witness == ~viewer.isEditMode /\ lastOp.op = "toggleEditMode"

\* The list hotspots without its element at position i.
WithoutAt(hotspots, i) == SubSeq(hotspots, 1, i - 1) \o SubSeq(hotspots, i + 1, Len(hotspots))

SameHotspotList(a, b) ==
    Len(a) = Len(b) /\ \A i \in 1..Len(a) : SameHotspot(a[i], b[i])

\* C39: a deleteHotspot that changes the graph leaves the target map's list
\* equal to the previous list without one element, which has the given id,
\* the others in their order; every other surviving map is unchanged; and a map
\* that disappears is the link target of a removed hotspot with that id.
C39_DeleteRemovesExactlyOne ==
    \A m \in TargetMapIds, id \in AnyHotspotIds :
        LET t == deleteHotspot(St, m, id)
        IN  t.data # managedMapData =>
                /\ m \in DOMAIN t.data
                /\ \E i \in 1..Len(managedMapData[m].hotspots) :
                      /\ Get(managedMapData[m].hotspots[i], "id") = id
                      /\ SameHotspotList(t.data[m].hotspots,
                                         WithoutAt(managedMapData[m].hotspots, i))
                /\ \A k \in DOMAIN t.data \ {m} :
                      k \in DOMAIN managedMapData /\ SameMapDef(t.data[k], managedMapData[k])
                /\ \A k \in DOMAIN managedMapData \ DOMAIN t.data :
                      \E i \in 1..Len(managedMapData[m].hotspots) :
                          /\ Get(managedMapData[m].hotspots[i], "id") = id
                          /\ Get(managedMapData[m].hotspots[i], "link_to_map_id") = k

\* C40: whenever the history is not empty a navigateBack shortens it by
\* exactly one entry, and a user who keeps pressing Back eventually has an
\* empty history.
C40_BackMakesProgress ==
    /\ [](canGoBack(St) => Len(navigateBack(St).hist) = Len(navigationHistory) - 1)
    /\ (lastOp.op = "navigateBack" ~> navigationHistory = <<>>)

====
